---------------------------- MODULE Spec2Model ----------------------------
(***************************************************************************)
(* Campaign Performance Report Generator (generate_report_from_data.py).   *)
(*                                                                         *)
(* The model follows main(): load the campaign CSV, load the optional      *)
(* business CSV, aggregate by month and by week, create the sheets of the  *)
(* workbook one after the other, save the workbook.  The pandas operations *)
(* the code relies on (groupby, sort_values, merge, fillna, clip, sum) are *)
(* written out as operators.                                               *)
(*                                                                         *)
(* The template generator (generate_excel_report.py) is modelled after it: *)
(* the sheets it creates, with their formulas, and the recalculation of    *)
(* the workbook once the two reports are pasted in.                        *)
(*                                                                         *)
(* Amounts are exact integers (currency in whole units); the derived       *)
(* metrics are exact rationals, or inf / nan where pandas yields them.     *)
(* Text is a sequence of one-character strings, so that lexical order,     *)
(* lower-casing and substring tests are computed.                          *)
(***************************************************************************)
EXTENDS Integers, Sequences, FiniteSets, TLC

VARIABLES
    pc,             \* position in main()
    campaign_file,  \* the campaign CSV on disk
    business_file,  \* the business CSV on disk
    campaign_df,    \* DataFrame returned by load_campaign_data, or None
    business_df,    \* DataFrame returned by load_business_data, or None
    monthly_data,   \* aggregate_by_month(campaign_df, business_df)
    weekly_data,    \* aggregate_by_week(campaign_df)
    wb,             \* the workbook: sheet name and content, in creation order
    output_file,    \* the saved report, or None
    error,          \* the exception that ended the run, or None
    df,             \* a function on its own: the argument passed;
                    \* two runs: the outcome of the first run
    result          \* a function on its own: the value returned;
                    \* two runs: the outcome of the current run

vars == <<pc, campaign_file, business_file, campaign_df, business_df,
          monthly_data, weekly_data, wb, output_file, error, df, result>>

\* Every value carries its kind in field k, so that any two can be compared.
None == [k |-> "none"]
NaN == [k |-> "nan"]
NaT == [k |-> "nat"]

\* a str
Txt(s) == [k |-> "text", s |-> s]

\* a DataFrame: its column names and its rows in frame order; each row
\* carries its index label in the field "index"
DF(columns, rows) == [k |-> "df", columns |-> columns, rows |-> rows]

---------------------------------------------------------------------------
(* Bounds of the model *)

MaxRows == 3

MaxBizRows == 1

MaxGroup == 2

\* rows of the campaign report pasted into the template
MaxPasted == 2

---------------------------------------------------------------------------
(* Text *)

\* The characters that occur, in ASCII order.
Chars ==
    << " ", "\"", "$", "%", "'", "+", ",", "-", ".", "0", "1", "2", "3", "4", "5", "6", "7", "8", "9",
       "A", "B", "C", "D", "E", "F", "G", "H", "I", "J", "K", "L", "M",
       "N", "O", "P", "Q", "R", "S", "T", "U", "V", "W", "X", "Y", "Z",
       "_",
       "a", "b", "c", "d", "e", "f", "g", "h", "i", "j", "k", "l", "m",
       "n", "o", "p", "q", "r", "s", "t", "u", "v", "w", "x", "y", "z" >>

CharSet == { Chars[i] : i \in 1..Len(Chars) }

Ord == [c \in CharSet |-> CHOOSE i \in 1..Len(Chars) : Chars[i] = c]

\* Python's str < str: lexicographic by code point, a proper prefix first.
StrLess(x, y) ==
    LET a == x.s
        b == y.s
    IN  \E i \in 1..Len(b) :
            /\ \A j \in 1..(i - 1) : j <= Len(a) /\ a[j] = b[j]
            /\ \/ i = Len(a) + 1
               \/ i <= Len(a) /\ Ord[a[i]] < Ord[b[i]]

\* str.lower()
LowerChar(c) ==
    IF Ord[c] >= Ord["A"] /\ Ord[c] <= Ord["Z"]
    THEN Chars[Ord[c] - Ord["A"] + Ord["a"]]
    ELSE c

lower(x) == Txt([i \in 1..Len(x.s) |-> LowerChar(x.s[i])])

\* Python's `sub in s`
Contains(sub, x) ==
    \E i \in 0..(Len(x.s) - Len(sub)) :
        \A j \in 1..Len(sub) : x.s[i + j] = sub[j]

DigitChar(n) == Chars[Ord["0"] + n]

\* n printed in decimal, zero-padded to `width` digits (%Y, %U).
RECURSIVE Digits(_, _)
Digits(n, width) ==
    IF width = 0 THEN <<>>
    ELSE Append(Digits(n \div 10, width - 1), DigitChar(n % 10))

\* n >= 0 printed in decimal without padding
RECURSIVE Decimal(_)
Decimal(n) ==
    IF n < 10 THEN <<DigitChar(n)>>
    ELSE Append(Decimal(n \div 10), DigitChar(n % 10))

\* Python's str(value) on a cell: a str is itself, a whole float64 prints with
\* one decimal ('5.0')
str(value) ==
    IF value.k = "text" THEN value
    ELSE Txt((IF value.n < 0 THEN <<"-">> ELSE << >>)
             \o Decimal(IF value.n < 0 THEN -value.n ELSE value.n) \o <<".", "0">>)

---------------------------------------------------------------------------
(* Dates: pandas Timestamps at day resolution, as [y, m, d] *)

IsLeap(y) == (y % 4 = 0 /\ y % 100 # 0) \/ y % 400 = 0

DaysInMonth(y, m) ==
    IF m = 2 THEN (IF IsLeap(y) THEN 29 ELSE 28)
    ELSE IF m \in {4, 6, 9, 11} THEN 30 ELSE 31

RECURSIVE DaysBeforeMonth(_, _)
DaysBeforeMonth(y, m) ==
    IF m = 1 THEN 0 ELSE DaysBeforeMonth(y, m - 1) + DaysInMonth(y, m - 1)

RECURSIVE DaysBeforeYear(_)
DaysBeforeYear(y) ==
    IF y <= 2024 THEN 0
    ELSE DaysBeforeYear(y - 1) + (IF IsLeap(y - 1) THEN 366 ELSE 365)

\* tm_yday, counted from 0
DayOfYear(t) == DaysBeforeMonth(t.y, t.m) + t.d - 1

\* days since 1 January 2024: the order of Timestamps
Ordinal(t) == DaysBeforeYear(t.y) + DayOfYear(t)

\* tm_wday with Sunday = 0; 1 January 2024 was a Monday
WeekDay(t) == (Ordinal(t) + 1) % 7

DateLess(s, t) == Ordinal(s) < Ordinal(t)

MonthAbbr ==
    << <<"J","a","n">>, <<"F","e","b">>, <<"M","a","r">>, <<"A","p","r">>,
       <<"M","a","y">>, <<"J","u","n">>, <<"J","u","l">>, <<"A","u","g">>,
       <<"S","e","p">>, <<"O","c","t">>, <<"N","o","v">>, <<"D","e","c">> >>

\* Series.dt.strftime('%b %Y'); NaT gives NaN
strftime_bY(t) ==
    IF t = NaT THEN NaN
    ELSE Txt(MonthAbbr[t.m] \o <<" ">> \o Digits(t.y, 4))

\* %U: week of the year, Sunday first; days before the first Sunday are week 00
WeekOfYearU(t) == (DayOfYear(t) + 7 - WeekDay(t)) \div 7

\* the week label with the week before the year ('W%U-%Y')
strftime_WUY(t) ==
    IF t = NaT THEN NaN
    ELSE Txt(<<"W">> \o Digits(WeekOfYearU(t), 2) \o <<"-">> \o Digits(t.y, 4))

\* Series.dt.strftime('%Y-W%U'); NaT gives NaN
strftime_YWU(t) ==
    IF t = NaT THEN NaN
    ELSE Txt(Digits(t.y, 4) \o <<"-", "W">> \o Digits(WeekOfYearU(t), 2))

---------------------------------------------------------------------------
(* Numbers: float64 values as exact rationals, inf and nan *)

Abs(x) == IF x < 0 THEN -x ELSE x

RECURSIVE GCD(_, _)
GCD(a, b) == IF b = 0 THEN a ELSE GCD(b, a % b)

\* the rational n/d (d > 0) in lowest terms
Num(n, d) ==
    LET g == GCD(Abs(n), d)
    IN  [k |-> "num", n |-> n \div g, d |-> d \div g]

Flt(n) == Num(n, 1)

Zero == Flt(0)

Inf(s) == [k |-> "inf", s |-> s]

Sign(x) == IF x.k = "inf" THEN x.s ELSE IF x.n > 0 THEN 1 ELSE IF x.n < 0 THEN -1 ELSE 0

\* float64 division as numpy does it on a Series: x/0 is inf, 0/0 is nan
FDiv(a, b) ==
    IF a = NaN \/ b = NaN THEN NaN
    ELSE IF a.k = "inf" THEN (IF b.k = "inf" THEN NaN
                              ELSE Inf(IF Sign(b) < 0 THEN -a.s ELSE a.s))
    ELSE IF b.k = "inf" THEN Zero
    ELSE IF b.n = 0 THEN (IF a.n = 0 THEN NaN ELSE Inf(Sign(a)))
    ELSE Num(a.n * b.d * Sign(b), a.d * Abs(b.n))

FMul(a, b) ==
    IF a = NaN \/ b = NaN THEN NaN
    ELSE IF a.k = "inf" \/ b.k = "inf"
         THEN (IF Sign(a) * Sign(b) = 0 THEN NaN ELSE Inf(Sign(a) * Sign(b)))
    ELSE Num(a.n * b.n, a.d * b.d)

FSub(a, b) ==
    IF a = NaN \/ b = NaN THEN NaN
    ELSE IF a.k = "inf" THEN (IF b.k = "inf" /\ b.s = a.s THEN NaN ELSE a)
    ELSE IF b.k = "inf" THEN Inf(-b.s)
    ELSE Num(a.n * b.d - b.n * a.d, a.d * b.d)

\* Python's x > 0 on a float: False for nan
FGt0(x) == x # NaN /\ Sign(x) > 0

\* Series.fillna(v)
fillna(x, v) == IF x = NaN THEN v ELSE x

\* Series.clip(lower=0) left out
clip_none(x) == x

\* Series.clip(lower=0): nan stays nan
clip_lower0(x) == IF x = NaN THEN NaN ELSE IF Sign(x) < 0 THEN Zero ELSE x

\* pd.isna on a cell
isna(v) == v = NaN \/ v = NaT

---------------------------------------------------------------------------
(* pandas helpers *)

\* the elements of the finite set S as a sequence in increasing order, where
\* `before` holds the pairs <<a, b>> with a ordered before b (a total order on S)
SortedSeq(S, before) ==
    [i \in 1..Cardinality(S) |->
        CHOOSE s \in S : Cardinality({t \in S : <<t, s>> \in before}) = i - 1]

\* the pairs of S in lexical order of their text
ByText(S) == { p \in S \X S : StrLess(p[1], p[2]) }

Range(seq) == { seq[i] : i \in 1..Len(seq) }

\* Series.sum() of a column of amounts
RECURSIVE SumSeq(_)
SumSeq(s) == IF s = <<>> THEN 0 ELSE Head(s) + SumSeq(Tail(s))

Column(rows, name) == [i \in 1..Len(rows) |-> rows[i][name]]

Sum(rows, name) == SumSeq(Column(rows, name))

\* the group keys of df.groupby(col): the distinct values, NaN dropped
GroupKeys(rows, col) == { rows[i][col] : i \in 1..Len(rows) } \ {NaN}

\* one group of df.groupby(col): its rows, in frame order
Group(rows, col, key) == SelectSeq(rows, LAMBDA r : r[col] = key)

---------------------------------------------------------------------------
(* The CSV files *)

CAMPAIGN_COLUMNS ==
    {"Date", "Portfolio name", "Campaign Name", "Spend", "7 Day Total Sales ",
     "7 Day Total Orders (#)", "Impressions", "Clicks"}

BUSINESS_COLUMNS ==
    {"Date", "Ordered Product Sales", "Units Ordered", "Sessions - Total"}

\* a Date cell no date format matches
BadDate == Txt(<<"x">>)

D(y, m, d) == [k |-> "date", y |-> y, m |-> m, d |-> d]

T_JN == Txt(<<"J", "N">>)
T_jnx == Txt(<<"j", "n", " ", "x">>)
T_Core == Txt(<<"C", "o", "r", "e">>)
T_Branded == Txt(<<"B", "r", "a", "n", "d", "e", "d">>)
T_Pat == Txt(<<"a", " ", "P", "A", "T", " ", "b">>)
T_Widget == Txt(<<"W", "i", "d", "g", "e", "t">>)

CRow(date, pf, cn, spend, sales, orders, impressions, clicks) ==
    [Date |-> date, PortfolioName |-> pf, CampaignName |-> cn,
     Spend |-> Flt(spend), Sales7d |-> Flt(sales), Orders7d |-> Flt(orders),
     Impressions |-> IF impressions = -1 THEN NaN ELSE Flt(impressions),
     Clicks |-> Flt(clicks)]

\* the rows a campaign CSV is made of: an empty cell is read as NaN
\* (written -1 in the Impressions argument)
CampaignRows ==
    { CRow(D(2024, 11, 15), T_JN,   T_Branded, 2, 6, 1, 4, 2),
      CRow(D(2024, 12, 30), T_Core, T_Pat,     3, 0, 0, 5, 1),
      CRow(D(2025, 1, 1),   T_jnx,  T_Widget,  1, 5, 2, -1, 0),
      CRow(NaN,             NaN,    NaN,       1, 1, 1, 1, 1),
      CRow(BadDate,         T_JN,   T_Widget,  1, 2, 1, 2, 1) }

BRow(date, sales, units, sessions) ==
    [Date |-> date, OrderedProductSales |-> Flt(sales),
     UnitsOrdered |-> Flt(units), Sessions |-> Flt(sessions)]

BusinessRows ==
    { BRow(D(2024, 11, 20), 0, 0, 3),
      BRow(D(2024, 12, 5), 10, 2, 8),
      BRow(D(2025, 1, 15), 3, 1, 4),
      BRow(BadDate, 4, 1, 2) }

RECURSIVE SeqsUpTo(_, _)
SeqsUpTo(S, n) ==
    IF n = 0 THEN { <<>> }
    ELSE LET shorter == SeqsUpTo(S, n - 1)
         IN  shorter \cup { Append(q, x) : q \in shorter, x \in S }

File(columns, rows) == [exists |-> TRUE, columns |-> columns, rows |-> rows]

NoFile == [exists |-> FALSE, columns |-> {}, rows |-> <<>>]

\* what may be on disk as CAMPAIGN_FILE
CampaignFiles ==
    {NoFile, File(CAMPAIGN_COLUMNS \ {"Spend"}, <<>>)}
        \cup { File(CAMPAIGN_COLUMNS, rows) : rows \in SeqsUpTo(CampaignRows, MaxRows) }

\* what may be on disk as BUSINESS_FILE
BusinessFiles ==
    {NoFile, File(BUSINESS_COLUMNS \ {"Sessions - Total"}, <<>>)}
        \cup { File(BUSINESS_COLUMNS, rows) : rows \in SeqsUpTo(BusinessRows, MaxBizRows) }

---------------------------------------------------------------------------
(* Data loading and processing *)

\* what a function call comes to: a returned value or a raised exception
Return(v) == [ok |-> TRUE, error |-> "none", value |-> v]

Raise(e) == [ok |-> FALSE, error |-> e, value |-> None]

\* str.replace(c, '') for each c of `drop`
RemoveChars(s, drop) == SelectSeq(s, LAMBDA c : c \notin drop)

\* str.strip() of the blanks
RECURSIVE strip(_)
strip(s) ==
    IF s = << >> THEN s
    ELSE IF Head(s) = " " THEN strip(Tail(s))
    ELSE IF s[Len(s)] = " " THEN strip(SubSeq(s, 1, Len(s) - 1))
    ELSE s

IsDigit(c) == Ord[c] >= Ord["0"] /\ Ord[c] <= Ord["9"]

\* the number a sequence of digits stands for
RECURSIVE IntOf(_)
IntOf(s) ==
    IF s = << >> THEN 0
    ELSE 10 * IntOf(SubSeq(s, 1, Len(s) - 1)) + (Ord[s[Len(s)]] - Ord["0"])

RECURSIVE Pow10(_)
Pow10(n) == IF n = 0 THEN 1 ELSE 10 * Pow10(n - 1)

\* digits with at most one point among them, and at least one digit
IsDecimal(s) ==
    /\ \A i \in 1..Len(s) : IsDigit(s[i]) \/ s[i] = "."
    /\ Cardinality({ i \in 1..Len(s) : s[i] = "." }) <= 1
    /\ \E i \in 1..Len(s) : IsDigit(s[i])

\* Python's float(s) on a stripped str: an optional sign, then a decimal
\* number, 'inf', 'infinity' or 'nan' in any letter case; anything else raises
\* ValueError.  (Exponents and digit-group underscores are left out.)
float(s) ==
    LET signed == s # << >> /\ Head(s) \in {"+", "-"}
        sign == IF signed /\ Head(s) = "-" THEN -1 ELSE 1
        body == IF signed THEN Tail(s) ELSE s
        low == lower(Txt(body)).s
    IN  IF low \in {<<"i", "n", "f">>, <<"i", "n", "f", "i", "n", "i", "t", "y">>}
        THEN Return(Inf(sign))
        ELSE IF low = <<"n", "a", "n">> THEN Return(NaN)
        ELSE IF IsDecimal(body)
        THEN LET digits == SelectSeq(body, IsDigit)
                 decimals == IF \E i \in 1..Len(body) : body[i] = "."
                             THEN Len(body) - (CHOOSE i \in 1..Len(body) : body[i] = ".")
                             ELSE 0
             IN  Return(Num(sign * IntOf(digits), Pow10(decimals)))
        ELSE Raise("ValueError")

\* parse_currency on a cell: NaN, a number or a str
parse_currency(value) ==
    IF isna(value) THEN Zero
    ELSE IF value.k # "text" THEN value
    ELSE LET cleaned == strip(RemoveChars(value.s, {"$", ",", "\""}))
         IN  IF cleaned = << >> THEN Zero
             ELSE IF float(cleaned).ok THEN float(cleaned).value ELSE Zero

\* parse_percent on a cell: NaN, a number or a str
parse_percent(value) ==
    IF isna(value) THEN Zero
    ELSE IF value.k # "text" THEN value
    ELSE LET cleaned == strip(RemoveChars(value.s, {"%", "\""}))
         IN  IF cleaned = << >> THEN Zero
             ELSE IF float(cleaned).ok THEN float(cleaned).value ELSE Zero

\* a float holding a whole amount, as the integer the model's columns keep
\* (the amounts in the model's files are whole)
Whole(x) == x.n \div x.d

JN == Txt(<<"J", "N">>)
Non_JN == Txt(<<"N", "o", "n", "-", "J", "N">>)
Branded == Txt(<<"B", "r", "a", "n", "d", "e", "d">>)
Competitor == Txt(<<"C", "o", "m", "p", "e", "t", "i", "t", "o", "r">>)
Non_Branded == Txt(<<"N", "o", "n", "-", "B", "r", "a", "n", "d", "e", "d">>)

\* classify_portfolio looking for 'JN' as written, without lower-casing
classify_portfolio_case_sensitive(portfolio_name) ==
    IF isna(portfolio_name) THEN Non_JN
    ELSE IF Contains(<<"J", "N">>, str(portfolio_name)) THEN JN ELSE Non_JN

\* classify_portfolio without the default for a missing name
classify_portfolio_no_default(portfolio_name) ==
    IF isna(portfolio_name) THEN NaN
    ELSE IF Contains(<<"j", "n">>, lower(str(portfolio_name))) THEN JN ELSE Non_JN

classify_portfolio(portfolio_name) ==
    IF isna(portfolio_name) THEN Non_JN
    ELSE IF Contains(<<"j", "n">>, lower(str(portfolio_name))) THEN JN ELSE Non_JN

\* classify_segment without the default for a missing name
classify_segment_no_default(campaign_name) ==
    IF isna(campaign_name) THEN NaN
    ELSE LET name_lower == lower(str(campaign_name))
         IN  IF Contains(<<"b", "r", "a", "n", "d", "e", "d">>, name_lower)
             THEN Branded
             ELSE IF \/ Contains(<<" ", "p", "a", "t", " ">>, name_lower)
                     \/ Contains(<<"-", " ", "p", "a", "t", " ", "-">>, name_lower)
                     \/ Contains(<<"_", "p", "a", "t", "_">>, name_lower)
             THEN Competitor
             ELSE Non_Branded

\* classify_segment with the Competitor check before the Branded check
classify_segment_pat_first(campaign_name) ==
    IF isna(campaign_name) THEN Non_Branded
    ELSE LET name_lower == lower(str(campaign_name))
         IN  IF \/ Contains(<<" ", "p", "a", "t", " ">>, name_lower)
                \/ Contains(<<"-", " ", "p", "a", "t", " ", "-">>, name_lower)
                \/ Contains(<<"_", "p", "a", "t", "_">>, name_lower)
             THEN Competitor
             ELSE IF Contains(<<"b", "r", "a", "n", "d", "e", "d">>, name_lower)
             THEN Branded
             ELSE Non_Branded

\* classify_segment taking 'non-branded' and 'unbranded' for not branded
classify_segment_negation_aware(campaign_name) ==
    IF isna(campaign_name) THEN Non_Branded
    ELSE LET name_lower == lower(str(campaign_name))
         IN  IF /\ Contains(<<"b", "r", "a", "n", "d", "e", "d">>, name_lower)
                /\ ~Contains(<<"n", "o", "n", "-", "b", "r", "a", "n", "d", "e", "d">>, name_lower)
                /\ ~Contains(<<"u", "n", "b", "r", "a", "n", "d", "e", "d">>, name_lower)
             THEN Branded
             ELSE IF \/ Contains(<<" ", "p", "a", "t", " ">>, name_lower)
                     \/ Contains(<<"-", " ", "p", "a", "t", " ", "-">>, name_lower)
                     \/ Contains(<<"_", "p", "a", "t", "_">>, name_lower)
             THEN Competitor
             ELSE Non_Branded

classify_segment(campaign_name) ==
    IF isna(campaign_name) THEN Non_Branded
    ELSE LET name_lower == lower(str(campaign_name))
         IN  IF Contains(<<"b", "r", "a", "n", "d", "e", "d">>, name_lower)
             THEN Branded
             ELSE IF \/ Contains(<<" ", "p", "a", "t", " ">>, name_lower)
                     \/ Contains(<<"-", " ", "p", "a", "t", " ", "-">>, name_lower)
                     \/ Contains(<<"_", "p", "a", "t", "_">>, name_lower)
             THEN Competitor
             ELSE Non_Branded

\* pd.to_datetime(..., format='mixed') on one cell: an empty cell is NaT
to_datetime(cell) == IF cell = NaN THEN NaT ELSE cell

\* a cell to_datetime raises on (errors='raise' is the default)
Unparseable(cell) == cell.k = "text"

HasUnparseableDate(rows) == \E i \in 1..Len(rows) : Unparseable(rows[i].Date)

CampaignRecord(r, i) ==
    LET date == to_datetime(r.Date)
    IN  [index |-> i - 1,
         Date |-> date,
         PortfolioName |-> r.PortfolioName,
         CampaignName |-> r.CampaignName,
         Spend |-> Whole(parse_currency(r.Spend)),
         Sales |-> Whole(parse_currency(r.Sales7d)),
         Orders |-> Whole(parse_currency(r.Orders7d)),
         Impressions |-> Whole(parse_currency(r.Impressions)),
         Clicks |-> Whole(parse_currency(r.Clicks)),
         Portfolio_Type |-> classify_portfolio(r.PortfolioName),
         Segment |-> classify_segment(r.CampaignName),
         Month_Label |-> strftime_bY(date),
         Week |-> strftime_YWU(date)]

CAMPAIGN_DERIVED ==
    {"Sales", "Orders", "Portfolio_Type", "Segment", "Month", "Month_Label",
     "Week", "Year"}

load_campaign_data(file) ==
    IF ~file.exists THEN Raise("FileNotFoundError")
    ELSE IF "Date" \notin file.columns THEN Raise("KeyError")
    ELSE IF HasUnparseableDate(file.rows) THEN Raise("ValueError")
    ELSE IF ~(CAMPAIGN_COLUMNS \subseteq file.columns) THEN Raise("KeyError")
    ELSE Return(DF(file.columns \cup CAMPAIGN_DERIVED,
                   [i \in 1..Len(file.rows) |-> CampaignRecord(file.rows[i], i)]))

BusinessRecord(r, i) ==
    LET date == to_datetime(r.Date)
    IN  [index |-> i - 1,
         Date |-> date,
         Total_Sales |-> Whole(parse_currency(r.OrderedProductSales)),
         Units |-> Whole(parse_currency(r.UnitsOrdered)),
         Sessions |-> Whole(parse_currency(r.Sessions)),
         Month_Label |-> strftime_bY(date),
         Week |-> strftime_YWU(date)]

BUSINESS_DERIVED == {"Total_Sales", "Units", "Sessions", "Month", "Month_Label", "Week"}

load_business_data(file) ==
    IF "Date" \notin file.columns THEN Raise("KeyError")
    ELSE IF HasUnparseableDate(file.rows) THEN Raise("ValueError")
    ELSE IF ~(BUSINESS_COLUMNS \subseteq file.columns) THEN Raise("KeyError")
    ELSE Return(DF(file.columns \cup BUSINESS_DERIVED,
                   [i \in 1..Len(file.rows) |-> BusinessRecord(file.rows[i], i)]))

---------------------------------------------------------------------------
(* Aggregation functions *)

METRIC_COLUMNS ==
    {"Spend", "Sales", "Orders", "Clicks", "Impressions",
     "ROAS", "ACoS", "CVR", "CPC", "CTR"}

\* calc_metrics with the divisions left unguarded
calc_metrics_unguarded(rows) ==
    LET spend == Sum(rows, "Spend")
        sales == Sum(rows, "Sales")
        orders == Sum(rows, "Orders")
        clicks == Sum(rows, "Clicks")
        impressions == Sum(rows, "Impressions")
    IN  [Spend |-> spend,
         Sales |-> sales,
         Orders |-> orders,
         Clicks |-> clicks,
         Impressions |-> impressions,
         ROAS |-> FDiv(Flt(sales), Flt(spend)),
         ACoS |-> FMul(FDiv(Flt(spend), Flt(sales)), Flt(100)),
         CVR |-> FMul(FDiv(Flt(orders), Flt(clicks)), Flt(100)),
         CPC |-> FDiv(Flt(spend), Flt(clicks)),
         CTR |-> FMul(FDiv(Flt(clicks), Flt(impressions)), Flt(100))]

\* the sum of the records' own sales / spend ratios
RECURSIVE SumOfRoas(_)
SumOfRoas(rows) ==
    IF rows = << >> THEN Zero
    ELSE LET r == Head(rows)
             own == IF r.Spend > 0 THEN Num(r.Sales, r.Spend) ELSE Zero
         IN  FSub(own, FSub(Zero, SumOfRoas(Tail(rows))))

\* calc_metrics with ROAS as the mean of the records' ratios
calc_metrics_mean_of_ratios(rows) ==
    LET spend == Sum(rows, "Spend")
        sales == Sum(rows, "Sales")
        orders == Sum(rows, "Orders")
        clicks == Sum(rows, "Clicks")
        impressions == Sum(rows, "Impressions")
    IN  [Spend |-> spend,
         Sales |-> sales,
         Orders |-> orders,
         Clicks |-> clicks,
         Impressions |-> impressions,
         ROAS |-> IF spend > 0 THEN FDiv(SumOfRoas(rows), Flt(Len(rows))) ELSE Zero,
         ACoS |-> IF sales > 0 THEN Num(spend * 100, sales) ELSE Zero,
         CVR |-> IF clicks > 0 THEN Num(orders * 100, clicks) ELSE Zero,
         CPC |-> IF clicks > 0 THEN Num(spend, clicks) ELSE Zero,
         CTR |-> IF impressions > 0 THEN Num(clicks * 100, impressions) ELSE Zero]

\* calc_metrics(df) on the rows of df
calc_metrics(rows) ==
    LET spend == Sum(rows, "Spend")
        sales == Sum(rows, "Sales")
        orders == Sum(rows, "Orders")
        clicks == Sum(rows, "Clicks")
        impressions == Sum(rows, "Impressions")
    IN  [Spend |-> spend,
         Sales |-> sales,
         Orders |-> orders,
         Clicks |-> clicks,
         Impressions |-> impressions,
         ROAS |-> IF spend > 0 THEN Num(sales, spend) ELSE Zero,
         ACoS |-> IF sales > 0 THEN Num(spend * 100, sales) ELSE Zero,
         CVR |-> IF clicks > 0 THEN Num(orders * 100, clicks) ELSE Zero,
         CPC |-> IF clicks > 0 THEN Num(spend, clicks) ELSE Zero,
         CTR |-> IF impressions > 0 THEN Num(clicks * 100, impressions) ELSE Zero]

\* df.groupby(col).apply(lambda x: pd.Series(calc_metrics(x))).reset_index():
\* one row per group key, the keys in sorted (lexical) order, NaN keys dropped,
\* a fresh index 0, 1, ...
GroupbyMetrics(rows, col) ==
    LET keys == SortedSeq(GroupKeys(rows, col), ByText(GroupKeys(rows, col)))
    IN  [i \in 1..Len(keys) |->
            (col :> keys[i]) @@ ("index" :> i - 1)
                @@ calc_metrics(Group(rows, col, keys[i]))]

\* a row's key under df.groupby([c1, c2]); a NaN in either drops the row
PairKeys(rows, c1, c2) ==
    { <<rows[i][c1], rows[i][c2]>> : i \in 1..Len(rows) }
        \ { p \in { <<rows[i][c1], rows[i][c2]>> : i \in 1..Len(rows) } :
              p[1] = NaN \/ p[2] = NaN }

PairLess(p, q) == StrLess(p[1], q[1]) \/ (p[1] = q[1] /\ StrLess(p[2], q[2]))

\* df.groupby([c1, c2]).apply(...).reset_index()
GroupbyPairMetrics(rows, c1, c2) ==
    LET keys == SortedSeq(PairKeys(rows, c1, c2),
                          { p \in PairKeys(rows, c1, c2) \X PairKeys(rows, c1, c2) :
                                PairLess(p[1], p[2]) })
    IN  [i \in 1..Len(keys) |->
            (c1 :> keys[i][1]) @@ (c2 :> keys[i][2]) @@ ("index" :> i - 1)
                @@ calc_metrics(SelectSeq(rows,
                       LAMBDA r : r[c1] = keys[i][1] /\ r[c2] = keys[i][2]))]

\* Series.min() of the Date column of a group (its dates are not NaT)
MinDate(rows) ==
    CHOOSE t \in Range(Column(rows, "Date")) :
        \A u \in Range(Column(rows, "Date")) : ~DateLess(u, t)

\* month_order sorted by the label instead of the date
month_order_by_label(rows) ==
    SortedSeq(GroupKeys(rows, "Month_Label"), ByText(GroupKeys(rows, "Month_Label")))

\* campaign_df.groupby('Month_Label')['Date'].min().sort_values(): the labels
\* by their earliest date
month_order(rows) ==
    LET labels == GroupKeys(rows, "Month_Label")
    IN  SortedSeq(labels,
                  { p \in labels \X labels :
                        DateLess(MinDate(Group(rows, "Month_Label", p[1])),
                                 MinDate(Group(rows, "Month_Label", p[2]))) })

\* position of x in seq, from 0
IndexOf(seq, x) == (CHOOSE i \in 1..Len(seq) : seq[i] = x) - 1

\* business_df.groupby('Month_Label').agg({... 'sum'}).reset_index()
biz_monthly(brows) ==
    LET keys == SortedSeq(GroupKeys(brows, "Month_Label"),
                          ByText(GroupKeys(brows, "Month_Label")))
    IN  [i \in 1..Len(keys) |->
            LET g == Group(brows, "Month_Label", keys[i])
            IN  [index |-> i - 1,
                 Month_Label |-> keys[i],
                 Total_Sales |-> Sum(g, "Total_Sales"),
                 Units |-> Sum(g, "Units"),
                 Sessions |-> Sum(g, "Sessions")]]

\* the value of right[col] joined to a left row by Month_Label (how='left'):
\* NaN when no right row matches
Joined(right, label, col) ==
    IF \E j \in 1..Len(right) : right[j].Month_Label = label
    THEN Flt((CHOOSE r \in Range(right) : r.Month_Label = label)[col])
    ELSE NaN

\* the merge as an inner join: a left row without a match is dropped
MergeBusiness_inner(monthly, right) ==
    LET kept == SelectSeq(monthly,
                    LAMBDA m : \E j \in 1..Len(right) : right[j].Month_Label = m.Month_Label)
    IN  [i \in 1..Len(kept) |->
            LET m == kept[i]
                total_sales == Joined(right, m.Month_Label, "Total_Sales")
            IN  [m EXCEPT !["index"] = i - 1]
                  @@ [Total_Sales |-> total_sales,
                      Units |-> Joined(right, m.Month_Label, "Units"),
                      Sessions |-> Joined(right, m.Month_Label, "Sessions"),
                      TACOS |-> fillna(FMul(FDiv(Flt(m.Spend), total_sales), Flt(100)),
                                       Zero),
                      Organic_Sales |-> clip_lower0(FSub(total_sales, Flt(m.Sales)))]]

\* the merge as an outer join: a month of the business data that no left row
\* has is added as a row of its own, after the left rows
MergeBusiness_outer(monthly, right) ==
    LET extra == SelectSeq(right,
                     LAMBDA r : \A i \in 1..Len(monthly) :
                         monthly[i].Month_Label # r.Month_Label)
    IN  [i \in 1..(Len(monthly) + Len(extra)) |->
            IF i <= Len(monthly)
            THEN LET m == monthly[i]
                     total_sales == Joined(right, m.Month_Label, "Total_Sales")
                 IN  [m EXCEPT !["index"] = i - 1]
                       @@ [Total_Sales |-> total_sales,
                           Units |-> Joined(right, m.Month_Label, "Units"),
                           Sessions |-> Joined(right, m.Month_Label, "Sessions"),
                           TACOS |-> fillna(FMul(FDiv(Flt(m.Spend), total_sales), Flt(100)),
                                            Zero),
                           Organic_Sales |-> clip_lower0(FSub(total_sales, Flt(m.Sales)))]
            ELSE LET r == extra[i - Len(monthly)]
                 IN  [c \in METRIC_COLUMNS |->
                         IF c \in {"Spend", "Sales", "Orders", "Clicks", "Impressions"}
                         THEN 0 ELSE Zero]
                       @@ [index |-> i - 1,
                           Month_Label |-> r.Month_Label,
                           Total_Sales |-> Flt(r.Total_Sales),
                           Units |-> Flt(r.Units),
                           Sessions |-> Flt(r.Sessions),
                           TACOS |-> Zero,
                           Organic_Sales |-> Flt(r.Total_Sales)]]

\* monthly.merge(biz_monthly, on='Month_Label', how='left') and the two derived
\* columns: the left rows in their order, with a fresh index
MergeBusiness(monthly, right) ==
    [i \in 1..Len(monthly) |->
        LET m == monthly[i]
            total_sales == Joined(right, m.Month_Label, "Total_Sales")
        IN  [m EXCEPT !["index"] = i - 1]
              @@ [Total_Sales |-> total_sales,
                  Units |-> Joined(right, m.Month_Label, "Units"),
                  Sessions |-> Joined(right, m.Month_Label, "Sessions"),
                  TACOS |-> fillna(FMul(FDiv(Flt(m.Spend), total_sales), Flt(100)),
                                   Zero),
                  Organic_Sales |-> clip_lower0(FSub(total_sales, Flt(m.Sales)))]]

BUSINESS_JOINED == {"Total_Sales", "Units", "Sessions", "TACOS", "Organic_Sales"}

aggregate_by_month(c_df, b_df) ==
    LET monthly == GroupbyMetrics(c_df.rows, "Month_Label")
        order == month_order(c_df.rows)
        \* monthly.sort_values('sort_order'): each row keeps its index label
        sorted == SortedSeq(Range(monthly),
                      { p \in Range(monthly) \X Range(monthly) :
                            IndexOf(order, p[1].Month_Label)
                                < IndexOf(order, p[2].Month_Label) })
    IN  IF b_df # None
        THEN DF({"Month_Label"} \cup METRIC_COLUMNS \cup BUSINESS_JOINED,
                MergeBusiness(sorted, biz_monthly(b_df.rows)))
        ELSE DF({"Month_Label"} \cup METRIC_COLUMNS, sorted)

aggregate_by_week(c_df) ==
    LET weekly == GroupbyMetrics(c_df.rows, "Week")
    IN  DF({"Week"} \cup METRIC_COLUMNS,
           \* weekly.sort_values('Week')
           SortedSeq(Range(weekly),
               { p \in Range(weekly) \X Range(weekly) : StrLess(p[1].Week, p[2].Week) }))

aggregate_by_segment(c_df) ==
    DF({"Segment"} \cup METRIC_COLUMNS, GroupbyMetrics(c_df.rows, "Segment"))

aggregate_by_portfolio(c_df) ==
    DF({"Portfolio_Type"} \cup METRIC_COLUMNS,
       GroupbyMetrics(c_df.rows, "Portfolio_Type"))

aggregate_by_portfolio_and_month(c_df) ==
    DF({"Month_Label", "Portfolio_Type"} \cup METRIC_COLUMNS,
       GroupbyPairMetrics(c_df.rows, "Month_Label", "Portfolio_Type"))

aggregate_by_segment_and_month(c_df) ==
    DF({"Month_Label", "Segment"} \cup METRIC_COLUMNS,
       GroupbyPairMetrics(c_df.rows, "Month_Label", "Segment"))

---------------------------------------------------------------------------
(* Excel report generation.  A sheet is modelled by the values written to  *)
(* its cells; fonts, fills, widths and number formats are left out, and so *)
(* is the "Generated:" time stamp of the summary sheet.                    *)

Workbook(sheets) == [k |-> "wb", sheets |-> sheets]

SheetNames(w) == [i \in 1..Len(w.sheets) |-> w.sheets[i].name]

HasSheet(w, name) == \E i \in 1..Len(w.sheets) : w.sheets[i].name = name

SheetOf(w, name) == w.sheets[CHOOSE i \in 1..Len(w.sheets) : w.sheets[i].name = name]

ValidDates(rows) == Range(Column(rows, "Date")) \ {NaT}

\* campaign_df['Date'].min(): NaT values are skipped, NaT if there is no other
date_min(rows) ==
    IF ValidDates(rows) = {} THEN NaT
    ELSE CHOOSE t \in ValidDates(rows) : \A u \in ValidDates(rows) : ~DateLess(u, t)

date_max(rows) ==
    IF ValidDates(rows) = {} THEN NaT
    ELSE CHOOSE t \in ValidDates(rows) : \A u \in ValidDates(rows) : ~DateLess(t, u)

\* value / 100 as written to a percent cell
Pct(x) == FDiv(x, Flt(100))

\* total_sales of create_summary_sheet
overall_total_sales(b_df) ==
    IF b_df # None THEN Sum(b_df.rows, "Total_Sales") ELSE 0

\* tacos of create_summary_sheet
overall_tacos(c_df, b_df) ==
    LET overall == calc_metrics(c_df.rows)
        total_sales == overall_total_sales(b_df)
    IN  IF total_sales > 0 THEN Num(overall.Spend * 100, total_sales) ELSE Zero

\* the rows of a breakdown table of the summary sheet, top to bottom
Breakdown(table, col) ==
    [i \in 1..Len(table.rows) |->
        LET r == table.rows[i]
        IN  [label |-> r[col], Spend |-> r.Spend, Sales |-> r.Sales,
             ROAS |-> r.ROAS, ACoS |-> Pct(r.ACoS), Orders |-> r.Orders]]

create_summary_sheet(c_df, b_df, m_data) ==
    IF date_min(c_df.rows) = NaT
    THEN Raise("ValueError")   \* NaT.strftime
    ELSE Return(
        [name |-> "Executive Summary",
         date_range |-> <<date_min(c_df.rows), date_max(c_df.rows)>>,
         overall |-> calc_metrics(c_df.rows),
         total_sales |-> overall_total_sales(b_df),
         tacos |-> overall_tacos(c_df, b_df),
         portfolio |-> Breakdown(aggregate_by_portfolio(c_df), "Portfolio_Type"),
         segment |-> Breakdown(aggregate_by_segment(c_df), "Segment")])

\* the row that `for idx, row_data in table.iterrows()` leaves in sheet row r
\* when it writes each table row to sheet row idx + 4: the last one written
RowWrittenAt(table, r) ==
    table.rows[CHOOSE i \in 1..Len(table.rows) :
                  /\ table.rows[i].index + 4 = r
                  /\ \A j \in (i + 1)..Len(table.rows) : table.rows[j].index + 4 # r]

SheetRowsWritten(table) == { table.rows[i].index + 4 : i \in 1..Len(table.rows) }

MonthCells(m, with_business) ==
    [Month_Label |-> m.Month_Label, Spend |-> m.Spend, Sales |-> m.Sales,
     ROAS |-> m.ROAS, ACoS |-> Pct(m.ACoS), Orders |-> m.Orders,
     Clicks |-> m.Clicks, CVR |-> Pct(m.CVR)]
        @@ (IF with_business
            THEN [Total_Sales |-> m.Total_Sales, Organic |-> m.Organic_Sales,
                  TACOS |-> Pct(m.TACOS)]
            ELSE << >>)

\* one row of the month-over-month section with the divisions left unguarded
MoMCells_unguarded(curr, prev) ==
    LET spend_chg == FMul(FDiv(Flt(curr.Spend - prev.Spend), Flt(prev.Spend)), Flt(100))
        sales_chg == FMul(FDiv(Flt(curr.Sales - prev.Sales), Flt(prev.Sales)), Flt(100))
        roas_chg == FMul(FDiv(FSub(curr.ROAS, prev.ROAS), prev.ROAS), Flt(100))
    IN  [Month_Label |-> curr.Month_Label, Spend |-> Pct(spend_chg),
         Sales |-> Pct(sales_chg), ROAS |-> Pct(roas_chg)]

\* one row of the month-over-month section
MoMCells(curr, prev) ==
    LET spend_chg == IF prev.Spend > 0
                     THEN Num((curr.Spend - prev.Spend) * 100, prev.Spend) ELSE Zero
        sales_chg == IF prev.Sales > 0
                     THEN Num((curr.Sales - prev.Sales) * 100, prev.Sales) ELSE Zero
        roas_chg == IF FGt0(prev.ROAS)
                    THEN FMul(FDiv(FSub(curr.ROAS, prev.ROAS), prev.ROAS), Flt(100))
                    ELSE Zero
    IN  [Month_Label |-> curr.Month_Label, Spend |-> Pct(spend_chg),
         Sales |-> Pct(sales_chg), ROAS |-> Pct(roas_chg)]

create_monthly_sheet(m_data) ==
    LET with_business == "Total_Sales" \in m_data.columns
        n == Len(m_data.rows)
        start_row == n + 6
    IN  [name |-> "Monthly Performance",
         headers |-> <<"Month", "Spend", "Sales", "ROAS", "ACoS", "Orders",
                       "Clicks", "CVR">>
                     \o (IF with_business THEN <<"Total Sales", "Organic", "TACOS">>
                         ELSE << >>),
         data |-> [r \in SheetRowsWritten(m_data) |->
                      MonthCells(RowWrittenAt(m_data, r), with_business)],
         mom |-> [r \in { start_row + 2 + idx - 1 : idx \in 1..(n - 1) } |->
                     LET idx == r - start_row - 1
                     IN  MoMCells(m_data.rows[idx + 1], m_data.rows[idx])]]

create_weekly_sheet(w_data) ==
    [name |-> "Weekly Performance",
     data |-> [r \in SheetRowsWritten(w_data) |->
                  LET w == RowWrittenAt(w_data, r)
                  IN  [Week |-> w.Week, Spend |-> w.Spend, Sales |-> w.Sales,
                       ROAS |-> w.ROAS, ACoS |-> Pct(w.ACoS), Orders |-> w.Orders,
                       Clicks |-> w.Clicks]]]

\* table[(table[col] == value) & (table['Month_Label'] == month)]
Cell2(table, col, value, month) ==
    SelectSeq(table.rows, LAMBDA r : r[col] = value /\ r.Month_Label = month)

\* the three blocks (Spend, Sales, ROAS) of a by-month sheet: one line per
\* label, one column per month of `months`
ByMonthBlocks(table, col, labels, months) ==
    [spend |-> [i \in 1..Len(labels) |-> [j \in 1..Len(months) |->
                   Sum(Cell2(table, col, labels[i], months[j]), "Spend")]],
     sales |-> [i \in 1..Len(labels) |-> [j \in 1..Len(months) |->
                   Sum(Cell2(table, col, labels[i], months[j]), "Sales")]],
     roas  |-> [i \in 1..Len(labels) |-> [j \in 1..Len(months) |->
                   LET data == Cell2(table, col, labels[i], months[j])
                   IN  IF Len(data) > 0 THEN data[1].ROAS ELSE Zero]]]

create_segment_sheet(c_df) ==
    LET segment_monthly == aggregate_by_segment_and_month(c_df)
        months == month_order(c_df.rows)
        segments == <<Branded, Competitor, Non_Branded>>
    IN  [name |-> "Segment Analysis", months |-> months, labels |-> segments]
            @@ ByMonthBlocks(segment_monthly, "Segment", segments, months)

create_portfolio_sheet(c_df) ==
    LET portfolio_monthly == aggregate_by_portfolio_and_month(c_df)
        months == month_order(c_df.rows)
        portfolios == <<JN, Non_JN>>
        blocks == ByMonthBlocks(portfolio_monthly, "Portfolio_Type", portfolios, months)
    IN  [name |-> "Portfolio Analysis", months |-> months, labels |-> portfolios,
         spend_total |-> [i \in 1..Len(portfolios) |-> SumSeq(blocks.spend[i])],
         sales_total |-> [i \in 1..Len(portfolios) |-> SumSeq(blocks.sales[i])]]
            @@ blocks

\* organic_sales of create_organic_sheet: max(0, total_sales - ad_sales)
overall_organic_sales(c_df, b_df) ==
    LET total_sales == Sum(b_df.rows, "Total_Sales")
        ad_sales == Sum(c_df.rows, "Sales")
    IN  IF total_sales - ad_sales > 0 THEN total_sales - ad_sales ELSE 0

create_organic_sheet(c_df, b_df, m_data) ==
    IF b_df = None \/ "Total_Sales" \notin m_data.columns
    THEN [name |-> "Organic vs Paid", available |-> FALSE]
    ELSE LET total_sales == Sum(b_df.rows, "Total_Sales")
             ad_sales == Sum(c_df.rows, "Sales")
             organic_sales == overall_organic_sales(c_df, b_df)
         IN  [name |-> "Organic vs Paid",
              available |-> TRUE,
              total_sales |-> total_sales,
              ad_sales |-> ad_sales,
              organic_sales |-> organic_sales,
              ad_pct |-> IF total_sales > 0 THEN Num(ad_sales, total_sales) ELSE Zero,
              organic_pct |-> IF total_sales > 0 THEN Num(organic_sales, total_sales)
                              ELSE Zero,
              monthly |-> [i \in 1..Len(m_data.rows) |->
                  LET mrow == m_data.rows[i]
                      total == mrow.Total_Sales
                  IN  [Month_Label |-> mrow.Month_Label,
                       Total_Sales |-> total,
                       Sales |-> mrow.Sales,
                       Organic_Sales |-> mrow.Organic_Sales,
                       ad_pct |-> IF FGt0(total) THEN FDiv(Flt(mrow.Sales), total)
                                  ELSE Zero,
                       organic_pct |-> IF FGt0(total)
                                       THEN FDiv(mrow.Organic_Sales, total) ELSE Zero,
                       TACOS |-> Pct(mrow.TACOS)]]]

\* rows written to a raw data sheet at most
RAW_DATA_MAX_ROWS == 10000

campaign_cols ==
    {"Date", "PortfolioName", "CampaignName", "Spend", "Sales", "Orders",
     "Clicks", "Impressions", "Portfolio_Type", "Segment", "Month_Label"}

business_cols == {"Date", "Total_Sales", "Units", "Sessions", "Month_Label"}

create_raw_data_sheet(frame, sheet_name, key_columns) ==
    LET max_rows == IF Len(frame.rows) < RAW_DATA_MAX_ROWS THEN Len(frame.rows)
                    ELSE RAW_DATA_MAX_ROWS
    IN  [name |-> sheet_name,
         rows |-> [i \in 1..max_rows |-> [c \in key_columns |-> frame.rows[i][c]]]]

---------------------------------------------------------------------------
(* main() *)

Init ==
    /\ pc = "load_campaign"
    /\ campaign_file = None
    /\ business_file = None
    /\ campaign_df = None
    /\ business_df = None
    /\ monthly_data = None
    /\ weekly_data = None
    /\ wb = None
    /\ output_file = None
    /\ error = "none"
    /\ df = None
    /\ result = None

\* an uncaught exception ends the run
Abort(e) ==
    /\ pc' = "aborted"
    /\ error' = e

\* campaign_df = load_campaign_data(campaign_path)
LoadCampaign ==
    /\ pc = "load_campaign"
    /\ \E f \in CampaignFiles :
        /\ campaign_file' = f
        /\ LET r == load_campaign_data(f)
           IN  IF r.ok
               THEN /\ campaign_df' = r.value
                    /\ pc' = "load_business"
                    /\ error' = error
               ELSE /\ Abort(r.error)
                    /\ campaign_df' = campaign_df
    /\ UNCHANGED <<business_file, business_df, monthly_data, weekly_data, wb,
                   output_file, df, result>>

\* business_df = None; if os.path.exists(business_path): load_business_data
LoadBusiness ==
    /\ pc = "load_business"
    /\ \E f \in BusinessFiles :
        /\ business_file' = f
        /\ IF f.exists
           THEN LET r == load_business_data(f)
                IN  IF r.ok
                    THEN /\ business_df' = r.value
                         /\ pc' = "aggregate"
                         /\ error' = error
                    ELSE /\ Abort(r.error)
                         /\ business_df' = business_df
           ELSE /\ business_df' = None
                /\ pc' = "aggregate"
                /\ error' = error
    /\ UNCHANGED <<campaign_file, campaign_df, monthly_data, weekly_data, wb,
                   output_file, df, result>>

\* the aggregation writing its sort_order column into the campaign frame
AggregateData_in_place ==
    /\ pc = "aggregate"
    /\ GroupKeys(campaign_df.rows, "Month_Label") # {}
    /\ monthly_data' = aggregate_by_month(campaign_df, business_df)
    /\ weekly_data' = aggregate_by_week(campaign_df)
    /\ campaign_df' = DF(campaign_df.columns \cup {"sort_order"}, campaign_df.rows)
    /\ pc' = "workbook"
    /\ UNCHANGED <<campaign_file, business_file, business_df, wb,
                   output_file, error, df, result>>

\* monthly_data = aggregate_by_month(...); weekly_data = aggregate_by_week(...)
AggregateData ==
    /\ pc = "aggregate"
    /\ GroupKeys(campaign_df.rows, "Month_Label") # {}
    /\ monthly_data' = aggregate_by_month(campaign_df, business_df)
    /\ weekly_data' = aggregate_by_week(campaign_df)
    /\ pc' = "workbook"
    /\ UNCHANGED <<campaign_file, business_file, campaign_df, business_df, wb,
                   output_file, error, df, result>>

\* No record has a date: groupby finds no group, and apply has no result to
\* take the metric columns from.  Whether reset_index then raises or an empty
\* frame comes back depends on the pandas release; both are modelled.
AggregateNoGroups ==
    /\ pc = "aggregate"
    /\ GroupKeys(campaign_df.rows, "Month_Label") = {}
    /\ \/ /\ Abort("ValueError")
          /\ UNCHANGED <<monthly_data, weekly_data>>
       \/ /\ monthly_data' = aggregate_by_month(campaign_df, business_df)
          /\ weekly_data' = aggregate_by_week(campaign_df)
          /\ pc' = "workbook"
          /\ error' = error
    /\ UNCHANGED <<campaign_file, business_file, campaign_df, business_df, wb,
                   output_file, df, result>>

\* wb = Workbook(); wb.remove(wb.active)
CreateWorkbook ==
    /\ pc = "workbook"
    /\ wb' = Workbook(<< >>)
    /\ pc' = "summary"
    /\ UNCHANGED <<campaign_file, business_file, campaign_df, business_df,
                   monthly_data, weekly_data, output_file, error, df, result>>

\* wb.create_sheet(name): the sheet is added last
AddSheet(sheet, next_pc) ==
    /\ wb' = Workbook(Append(wb.sheets, sheet))
    /\ pc' = next_pc
    /\ UNCHANGED <<campaign_file, business_file, campaign_df, business_df,
                   monthly_data, weekly_data, output_file, error, df, result>>

\* create_summary_sheet: wb.create_sheet("Executive Summary", 0) puts it first
CreateSummarySheet ==
    /\ pc = "summary"
    /\ LET r == create_summary_sheet(campaign_df, business_df, monthly_data)
       IN  IF r.ok
           THEN /\ wb' = Workbook(<<r.value>> \o wb.sheets)
                /\ pc' = "monthly"
                /\ error' = error
           ELSE /\ Abort(r.error)
                /\ wb' = wb
    /\ UNCHANGED <<campaign_file, business_file, campaign_df, business_df,
                   monthly_data, weekly_data, output_file, df, result>>

CreateMonthlySheet ==
    /\ pc = "monthly"
    /\ AddSheet(create_monthly_sheet(monthly_data), "weekly")

CreateWeeklySheet ==
    /\ pc = "weekly"
    /\ AddSheet(create_weekly_sheet(weekly_data), "segment")

CreateSegmentSheet ==
    /\ pc = "segment"
    /\ AddSheet(create_segment_sheet(campaign_df), "portfolio")

CreatePortfolioSheet ==
    /\ pc = "portfolio"
    /\ AddSheet(create_portfolio_sheet(campaign_df), "organic")

\* if business_df is not None: create_organic_sheet(...)
CreateOrganicSheet ==
    /\ pc = "organic"
    /\ IF business_df # None
       THEN AddSheet(create_organic_sheet(campaign_df, business_df, monthly_data),
                     "campaign_data")
       ELSE /\ pc' = "campaign_data"
            /\ UNCHANGED <<campaign_file, business_file, campaign_df, business_df,
                           monthly_data, weekly_data, wb, output_file, error, df,
                           result>>

CreateCampaignDataSheet ==
    /\ pc = "campaign_data"
    /\ AddSheet(create_raw_data_sheet(campaign_df, "Campaign Data", campaign_cols),
                "business_data")

\* if business_df is not None: create_raw_data_sheet(... "Business Data" ...)
CreateBusinessDataSheet ==
    /\ pc = "business_data"
    /\ IF business_df # None
       THEN AddSheet(create_raw_data_sheet(business_df, "Business Data", business_cols),
                     "save")
       ELSE /\ pc' = "save"
            /\ UNCHANGED <<campaign_file, business_file, campaign_df, business_df,
                           monthly_data, weekly_data, wb, output_file, error, df,
                           result>>

\* wb.save called after the summary sheet as well as at the end
SaveEarly ==
    /\ pc \in {"monthly", "save"}
    /\ output_file' = [k |-> "xlsx", sheets |-> wb.sheets]
    /\ pc' = IF pc = "save" THEN "done" ELSE pc
    /\ UNCHANGED <<campaign_file, business_file, campaign_df, business_df,
                   monthly_data, weekly_data, wb, error, df, result>>

\* wb.save(output_path)
Save ==
    /\ pc = "save"
    /\ output_file' = [k |-> "xlsx", sheets |-> wb.sheets]
    /\ pc' = "done"
    /\ UNCHANGED <<campaign_file, business_file, campaign_df, business_df,
                   monthly_data, weekly_data, wb, error, df, result>>

Next ==
    \/ LoadCampaign
    \/ LoadBusiness
    \/ AggregateData
    \/ AggregateNoGroups
    \/ CreateWorkbook
    \/ CreateSummarySheet
    \/ CreateMonthlySheet
    \/ CreateWeeklySheet
    \/ CreateSegmentSheet
    \/ CreatePortfolioSheet
    \/ CreateOrganicSheet
    \/ CreateCampaignDataSheet
    \/ CreateBusinessDataSheet
    \/ Save

Spec == Init /\ [][Next]_vars

---------------------------------------------------------------------------
(* calc_metrics on its own: every group of up to MaxGroup records whose     *)
(* five quantities are each drawn from Amounts                              *)

Amounts == {0, 2}

MetricRecords ==
    [Spend : Amounts, Sales : Amounts, Orders : Amounts, Clicks : Amounts,
     Impressions : Amounts]

InitMetrics ==
    /\ pc = "calc_metrics"
    /\ df \in { DF({"Spend", "Sales", "Orders", "Clicks", "Impressions"}, rows) :
                  rows \in SeqsUpTo(MetricRecords, MaxGroup) }
    /\ result = None
    /\ campaign_file = None
    /\ business_file = None
    /\ campaign_df = None
    /\ business_df = None
    /\ monthly_data = None
    /\ weekly_data = None
    /\ wb = None
    /\ output_file = None
    /\ error = "none"

CalcMetrics ==
    /\ pc = "calc_metrics"
    /\ result' = calc_metrics(df.rows)
    /\ pc' = "returned"
    /\ UNCHANGED <<campaign_file, business_file, campaign_df, business_df,
                   monthly_data, weekly_data, wb, output_file, error, df>>

NextMetrics == CalcMetrics

SpecMetrics == InitMetrics /\ [][NextMetrics]_vars

---------------------------------------------------------------------------
(* classify_portfolio and classify_segment on their own: every name made of *)
(* up to MaxTokens of the tokens below, the names the specification gives as *)
(* examples, numbers, and a missing value                                   *)

MaxTokens == 3

NameTokens ==
    { <<"b", "r", "a", "n", "d", "e", "d">>,
      <<"B", "r", "a", "n", "d", "e", "d">>,
      <<"b", "r", "a", "n", "d">>,
      <<" ", "p", "a", "t", " ">>,
      <<" ", "P", "A", "T", " ">>,
      <<"-", "p", "a", "t", "-">>,
      <<"_", "p", "a", "t", "_">>,
      <<"p", "a", "t">>,
      <<" ">>,
      <<"-">>,
      <<"j", "n">>,
      <<"J", "N">>,
      <<"j">>,
      <<"N">>,
      <<"x">> }

RECURSIVE Flatten(_)
Flatten(q) == IF q = << >> THEN << >> ELSE Head(q) \o Flatten(Tail(q))

ExampleNames ==
    { Txt(<<"B", "r", "a", "n", "d", " ", "X", " ", "-", " ", "b", "r", "a", "n", "d", "e", "d", " ", "-", " ", "p", "a", "t", " ", "c", "a", "m", "p", "a", "i", "g", "n">>),
      Txt(<<"G", "e", "n", "e", "r", "i", "c", " ", "-", " ", "p", "a", "t", " ", "-", " ", "c", "a", "m", "p", "a", "i", "g", "n">>),
      Txt(<<"W", "i", "d", "g", "e", "t", " ", "S", "e", "a", "r", "c", "h">>),
      Txt(<<"J", "N", "-", "U", "S", "-", "M", "a", "i", "n">>) }

\* names that say of a campaign that it is not branded
NegatedNames ==
    { Txt(<<"N", "o", "n", "-", "B", "r", "a", "n", "d", "e", "d", " ", "S", "e", "a", "r", "c", "h">>),
      Txt(<<"u", "n", "b", "r", "a", "n", "d", "e", "d">>) }

ClassifyInputs ==
    { Txt(Flatten(q)) : q \in SeqsUpTo(NameTokens, MaxTokens) }
        \cup ExampleNames \cup NegatedNames \cup {NaN, Flt(0), Flt(5), Flt(-12)}

InitClassify ==
    /\ pc = "classify"
    /\ df \in ClassifyInputs
    /\ result = None
    /\ campaign_file = None
    /\ business_file = None
    /\ campaign_df = None
    /\ business_df = None
    /\ monthly_data = None
    /\ weekly_data = None
    /\ wb = None
    /\ output_file = None
    /\ error = "none"

\* df['Portfolio name'].apply(classify_portfolio), one cell
ClassifyPortfolio ==
    /\ pc = "classify"
    /\ result' = classify_portfolio(df)
    /\ pc' = "classify_portfolio"
    /\ UNCHANGED <<campaign_file, business_file, campaign_df, business_df,
                   monthly_data, weekly_data, wb, output_file, error, df>>

\* df['Campaign Name'].apply(classify_segment), one cell
ClassifySegment ==
    /\ pc = "classify"
    /\ result' = classify_segment(df)
    /\ pc' = "classify_segment"
    /\ UNCHANGED <<campaign_file, business_file, campaign_df, business_df,
                   monthly_data, weekly_data, wb, output_file, error, df>>

NextClassify ==
    \/ ClassifyPortfolio
    \/ ClassifySegment

SpecClassify == InitClassify /\ [][NextClassify]_vars

---------------------------------------------------------------------------
(* parse_currency and parse_percent on their own: every text made of up to  *)
(* MaxTokens of the tokens below, the specification's example, numbers and  *)
(* a missing value                                                          *)

AmountTokens ==
    { <<"$">>,
      <<",">>,
      <<"\"">>,
      <<"%">>,
      <<"'">>,
      <<" ">>,
      <<"-">>,
      <<".">>,
      <<"1">>,
      <<"2", "0">>,
      <<".", "5">>,
      <<"x">>,
      <<"n", "a", "n">>,
      <<"i", "n", "f">> }

ExampleAmounts ==
    { Txt(<<"$", "1", ",", "2", "3", "4", ".", "5", "0">>),
      Txt(<<"1", "2", ".", "5", "%">>) }

ParseInputs ==
    { Txt(Flatten(q)) : q \in SeqsUpTo(AmountTokens, MaxTokens) }
        \cup ExampleAmounts \cup {NaN, Flt(0), Flt(7), Num(-5, 2)}

InitParse ==
    /\ pc = "parse"
    /\ df \in ParseInputs
    /\ result = None
    /\ campaign_file = None
    /\ business_file = None
    /\ campaign_df = None
    /\ business_df = None
    /\ monthly_data = None
    /\ weekly_data = None
    /\ wb = None
    /\ output_file = None
    /\ error = "none"

\* df[col].apply(parse_currency), one cell
ParseCurrency ==
    /\ pc = "parse"
    /\ result' = parse_currency(df)
    /\ pc' = "parse_currency"
    /\ UNCHANGED <<campaign_file, business_file, campaign_df, business_df,
                   monthly_data, weekly_data, wb, output_file, error, df>>

\* parse_percent(value)
ParsePercent ==
    /\ pc = "parse"
    /\ result' = parse_percent(df)
    /\ pc' = "parse_percent"
    /\ UNCHANGED <<campaign_file, business_file, campaign_df, business_df,
                   monthly_data, weekly_data, wb, output_file, error, df>>

NextParse ==
    \/ ParseCurrency
    \/ ParsePercent

SpecParse == InitParse /\ [][NextParse]_vars

---------------------------------------------------------------------------
(* Two runs of main() on the same two files: loading and every aggregation, *)
(* the second run with the report of the first on disk.  Whether an         *)
(* aggregation without any group raises belongs to the pandas installation, *)
(* which is the same in both runs.                                          *)

\* the second run adding its week rows to those of the first
load_and_aggregate_accumulating(c_file, b_file, empty_raises) ==
    LET c == load_campaign_data(c_file)
        b == IF b_file.exists THEN load_business_data(b_file) ELSE Return(None)
    IN  IF ~c.ok THEN Raise(c.error)
        ELSE IF ~b.ok THEN Raise(b.error)
        ELSE IF GroupKeys(c.value.rows, "Month_Label") = {} /\ empty_raises
        THEN Raise("ValueError")
        ELSE Return(
            [monthly_data |-> aggregate_by_month(c.value, b.value),
             weekly_data |->
                IF df # None /\ df.ok
                THEN DF(aggregate_by_week(c.value).columns,
                        df.value.weekly_data.rows \o aggregate_by_week(c.value).rows)
                ELSE aggregate_by_week(c.value),
             segment_data |-> aggregate_by_segment(c.value),
             portfolio_data |-> aggregate_by_portfolio(c.value),
             portfolio_monthly |-> aggregate_by_portfolio_and_month(c.value),
             segment_monthly |-> aggregate_by_segment_and_month(c.value)])

\* what main() loads and aggregates from the two files: the aggregate tables,
\* or the exception that ends the run
load_and_aggregate(c_file, b_file, empty_raises) ==
    LET c == load_campaign_data(c_file)
        b == IF b_file.exists THEN load_business_data(b_file) ELSE Return(None)
    IN  IF ~c.ok THEN Raise(c.error)
        ELSE IF ~b.ok THEN Raise(b.error)
        ELSE IF GroupKeys(c.value.rows, "Month_Label") = {} /\ empty_raises
        THEN Raise("ValueError")
        ELSE Return(
            [monthly_data |-> aggregate_by_month(c.value, b.value),
             weekly_data |-> aggregate_by_week(c.value),
             segment_data |-> aggregate_by_segment(c.value),
             portfolio_data |-> aggregate_by_portfolio(c.value),
             portfolio_monthly |-> aggregate_by_portfolio_and_month(c.value),
             segment_monthly |-> aggregate_by_segment_and_month(c.value)])

InitRerun ==
    /\ pc = "run"
    /\ campaign_file \in CampaignFiles
    /\ business_file \in BusinessFiles
    /\ df = None
    /\ result = None
    /\ campaign_df = None
    /\ business_df = None
    /\ monthly_data = None
    /\ weekly_data = None
    /\ wb = None
    /\ output_file = None
    /\ error = "none"

\* one run of main() up to the aggregate tables
RunPipeline ==
    /\ pc = "run"
    /\ \E empty_raises \in BOOLEAN :
          /\ df # None => empty_raises = df.empty_raises
          /\ result' = load_and_aggregate(campaign_file, business_file, empty_raises)
                            @@ [empty_raises |-> empty_raises]
          /\ error' = result'.error
          /\ monthly_data' = IF result'.ok THEN result'.value.monthly_data ELSE None
          /\ weekly_data' = IF result'.ok THEN result'.value.weekly_data ELSE None
    /\ pc' = "ran"
    /\ UNCHANGED <<campaign_file, business_file, campaign_df, business_df, wb,
                   output_file, df>>

\* the process ends, leaving its report on disk if it got that far, and
\* main() is started again on the same files
RunAgain ==
    /\ pc = "ran"
    /\ df = None
    /\ df' = result
    /\ output_file' = IF result.ok THEN [k |-> "xlsx", sheets |-> << >>] ELSE None
    /\ result' = None
    /\ monthly_data' = None
    /\ weekly_data' = None
    /\ error' = "none"
    /\ pc' = "run"
    /\ UNCHANGED <<campaign_file, business_file, campaign_df, business_df, wb>>

NextRerun ==
    \/ RunPipeline
    \/ RunAgain

SpecRerun == InitRerun /\ [][NextRerun]_vars

---------------------------------------------------------------------------
(* The template generator (generate_excel_report.py).  A worksheet is the   *)
(* function from cell to what the code writes there; of the cells, the      *)
(* model keeps the formulas that compute numbers and the settings they read *)
(* (labels, styles and number formats are left out).  A formula is written  *)
(* as its syntax tree and evaluated as Excel evaluates it on the rows       *)
(* pasted into the two data sheets.                                         *)

\* get_column_letter
ColumnLetters == <<"A", "B", "C", "D", "E", "F", "G", "H", "I", "J">>

get_column_letter(n) == ColumnLetters[n]

\* ws.cell(row=row, column=column)
Cell(row, column) == <<get_column_letter(column), row>>

\* the syntax of the formulas: a number or text, X12, Sheet!X12, a / b,
\* a - b, IF(a>0,t,e), MAX(0,a), SUM of cells, SUMIFS(sheet!col,criteria...),
\* TEXT(a,"MMM YYYY"), EOMONTH(a,months) and a+1
Lit(v) == [f |-> "lit", v |-> v]

Ref(letter, row) == [f |-> "ref", sheet |-> "", cell |-> <<letter, row>>]

SheetRef(sheet, letter, row) == [f |-> "ref", sheet |-> sheet, cell |-> <<letter, row>>]

Div(a, b) == [f |-> "div", a |-> a, b |-> b]

Sub(a, b) == [f |-> "sub", a |-> a, b |-> b]

\* the guard left out: the formula is its then-branch as it stands
IfGt0_unguarded(a, t, e) == t

IfGt0(a, t, e) == [f |-> "if_gt0", a |-> a, t |-> t, e |-> e]

Max0(a) == [f |-> "max0", a |-> a]

SumOf(cells) == [f |-> "sum", cells |-> cells]

Sumifs(sheet, column, criteria) ==
    [f |-> "sumifs", sheet |-> sheet, column |-> column, criteria |-> criteria]

TextMonth(a) == [f |-> "text_mmm_yyyy", a |-> a]

EoMonth(a, months) == [f |-> "eomonth", a |-> a, months |-> months]

PlusOne(a) == [f |-> "plus_one", a |-> a]

\* IF(a="Overall","*",IF(a="JN","JN","Non-JN"))
PortfolioFilter(a) == [f |-> "portfolio_filter", a |-> a]

\* one criteria_range, criterion pair of a SUMIFS
Criterion(column, op, arg) == [column |-> column, op |-> op, arg |-> arg]

\* 'X'!A:A,">="&Settings!B6,'X'!A:A,"<="&Settings!B7
InPeriod ==
    << Criterion("A", ">=", SheetRef("Settings", "B", 6)),
       Criterion("A", "<=", SheetRef("Settings", "B", 7)) >>

\* TEXT(EOMONTH(Settings!B7,months)+1,"MMM YYYY")
MonthLabelBack(months) ==
    TextMonth(PlusOne(EoMonth(SheetRef("Settings", "B", 7), months)))

\* a sheet of the template: the workbook keeps the value of the top-left
\* cell of a merged range only, the cells in covered are empty
TemplateSheet(name, cells, covered) ==
    [name |-> name,
     cells |-> [c \in (DOMAIN cells) \ covered |-> cells[c]],
     covered |-> covered]

NoCells == [c \in {} |-> None]

\* #DIV/0!
DivZero == [k |-> "error"]

\* an empty cell in a formula
Blank == NaN

\* EOMONTH(t, months) for months <= 0: the last day of the month that many
\* months before the month of t
EOMONTH(t, months) ==
    LET index == t.y * 12 + (t.m - 1) + months
        y == index \div 12
        m == (index % 12) + 1
    IN  D(y, m, DaysInMonth(y, m))

\* t - timedelta(days=n), for n of less than a year
DaysBefore(t, n) ==
    CHOOSE u \in { D(y, m, d) : y \in {t.y - 1, t.y}, m \in 1..12, d \in 1..31 } :
        /\ u.d <= DaysInMonth(u.y, u.m)
        /\ Ordinal(t) - Ordinal(u) = n

\* the day after t
NextDay(t) ==
    IF t.d < DaysInMonth(t.y, t.m) THEN D(t.y, t.m, t.d + 1)
    ELSE IF t.m < 12 THEN D(t.y, t.m + 1, 1)
    ELSE D(t.y + 1, 1, 1)

\* TEXT(a,"MMM YYYY"): text stays as it is, an empty cell is day 0
TEXT_MMM_YYYY(a) ==
    IF a = Blank THEN Txt(<<"J", "a", "n", " ", "1", "9", "0", "0">>)
    ELSE IF a.k = "date" THEN strftime_bY(a)
    ELSE a

\* the text SEARCH looks into
CellText(v) ==
    IF v = Blank THEN Txt(<< >>)
    ELSE IF v.k = "text" THEN v
    ELSE Txt((IF v.n < 0 THEN <<"-">> ELSE << >>) \o Decimal(Abs(v.n)))

\* ISNUMBER(SEARCH(find_text, cell)): SEARCH does not tell upper from lower case
Found(find_text, v) == Contains(lower(Txt(find_text)).s, lower(CellText(v)))

\* the helper columns the data sheets ask for, by the formulas of their row 3
PortfolioTypeFormula(b) == IF Found(<<"J", "N">>, b) THEN JN ELSE Non_JN

SegmentFormula(c) ==
    IF Found(<<"b", "r", "a", "n", "d", "e", "d">>, c) THEN Branded
    ELSE IF \/ Found(<<" ", "p", "a", "t", " ">>, c)
            \/ Found(<<"-", " ", "p", "a", "t", " ", "-">>, c)
    THEN Competitor
    ELSE Non_Branded

MonthFormula(a) == TEXT_MMM_YYYY(a)

\* an empty CSV cell pasted into a sheet
Pasted(v) == IF isna(v) THEN Blank ELSE v

\* a row of the campaign CSV pasted from row 5 on, with its helper columns
CampaignDataRow(r) ==
    [A |-> Pasted(r.Date), B |-> Pasted(r.PortfolioName),
     C |-> Pasted(r.CampaignName), E |-> Pasted(r.Impressions),
     F |-> r.Clicks, G |-> r.Spend, H |-> r.Sales7d, I |-> r.Orders7d,
     O |-> PortfolioTypeFormula(Pasted(r.PortfolioName)),
     P |-> SegmentFormula(Pasted(r.CampaignName)),
     R |-> MonthFormula(Pasted(r.Date))]

\* a row of the business CSV pasted from row 5 on, with its helper column
BusinessDataRow(r) ==
    [A |-> Pasted(r.Date), B |-> r.OrderedProductSales, C |-> r.UnitsOrdered,
     D |-> r.Sessions, I |-> MonthFormula(Pasted(r.Date))]

\* the rows of the two data sheets
DataRows(c_rows, b_rows) ==
    [k |-> "data",
     campaign |-> [i \in 1..Len(c_rows) |-> CampaignDataRow(c_rows[i])],
     business |-> [i \in 1..Len(b_rows) |-> BusinessDataRow(b_rows[i])]]

RowsOf(data, sheet) ==
    IF sheet = "Campaign Data" THEN data.campaign ELSE data.business

Overall == Txt(<<"O", "v", "e", "r", "a", "l", "l">>)

\* the one element of a set; { e(x) : x \in {v} } has e worked out on the
\* value of v, however often e uses x
The(S) == CHOOSE x \in S : TRUE

RECURSIVE ProductSeq(_)
ProductSeq(s) == IF s = << >> THEN 1 ELSE Head(s) * ProductSeq(Tail(s))

\* SUM and SUMIFS add the numbers and pass over text and empty cells
PlusSeq(s) ==
    The({ Num(SumSeq([i \in 1..Len(numbers) |->
                         numbers[i].n * (ProductSeq(Column(numbers, "d")) \div numbers[i].d)]),
              ProductSeq(Column(numbers, "d"))) :
          numbers \in {SelectSeq(s, LAMBDA v : v.k = "num")} })

\* a / b
Quotient(a, b) ==
    IF a = DivZero \/ b = DivZero THEN DivZero
    ELSE IF b.n = 0 THEN DivZero
    ELSE FDiv(a, b)

\* a - b, on two numbers or on two days
Difference(a, b) ==
    IF a = DivZero \/ b = DivZero THEN DivZero
    ELSE IF a.k = "date" THEN Flt(Ordinal(a) - Ordinal(b))
    ELSE FSub(a, b)

\* MAX(0,a)
MAX0(a) ==
    IF a = DivZero THEN DivZero
    ELSE IF Sign(a) < 0 THEN Zero
    ELSE a

\* two texts that differ in upper and lower case at most
SameText(a, b) ==
    /\ Len(a.s) = Len(b.s)
    /\ \A i \in 1..Len(a.s) : a.s[i] = b.s[i] \/ LowerChar(a.s[i]) = LowerChar(b.s[i])

\* a number that grows with the day, as the serial number of a date does
Serial(t) == (t.y * 12 + t.m) * 31 + t.d

\* whether a data cell meets a criterion whose argument has the value v;
\* "*" stands for any text
Meets(cell, op, v) ==
    IF op = "="
    THEN /\ cell.k = "text"
         /\ v.k = "text"
         /\ v.s = <<"*">> \/ SameText(cell, v)
    ELSE /\ cell.k = "date"
         /\ v.k = "date"
         /\ IF op = ">=" THEN Serial(cell) >= Serial(v) ELSE Serial(cell) <= Serial(v)

\* the value a formula has once the workbook is recalculated; cells are the
\* cells of the sheet the formula is in
RECURSIVE Evaluate(_, _, _, _)
Evaluate(book, data, cells, f) ==
    CASE f.f = "lit" -> f.v
      [] f.f = "ref" ->
            The({ IF f.cell \in DOMAIN target
                  THEN Evaluate(book, data, target, target[f.cell])
                  ELSE Zero :
                  target \in {IF f.sheet = "" THEN cells
                              ELSE SheetOf(book, f.sheet).cells} })
      [] f.f = "div" ->
            The({ Quotient(a, b) : a \in {Evaluate(book, data, cells, f.a)},
                                   b \in {Evaluate(book, data, cells, f.b)} })
      [] f.f = "sub" ->
            The({ Difference(a, b) : a \in {Evaluate(book, data, cells, f.a)},
                                     b \in {Evaluate(book, data, cells, f.b)} })
      [] f.f = "if_gt0" ->
            The({ IF a = DivZero THEN DivZero
                  ELSE IF Sign(a) > 0 THEN Evaluate(book, data, cells, f.t)
                  ELSE Evaluate(book, data, cells, f.e) :
                  a \in {Evaluate(book, data, cells, f.a)} })
      [] f.f = "max0" -> The({ MAX0(a) : a \in {Evaluate(book, data, cells, f.a)} })
      [] f.f = "sum" ->
            The({ IF DivZero \in Range(values) THEN DivZero ELSE PlusSeq(values) :
                  values \in {SelectSeq([i \in 1..Len(f.cells) |->
                                  Evaluate(book, data, cells, f.cells[i])],
                                  LAMBDA v : TRUE)} })
      [] f.f = "sumifs" ->
            LET args == { <<i, Evaluate(book, data, cells, f.criteria[i].arg)>> :
                            i \in 1..Len(f.criteria) }
                rows == SelectSeq(RowsOf(data, f.sheet),
                            LAMBDA r : \A c \in args :
                                Meets(r[f.criteria[c[1]].column], f.criteria[c[1]].op, c[2]))
            IN  PlusSeq(Column(rows, f.column))
      [] f.f = "portfolio_filter" ->
            The({ IF selected = Overall THEN Txt(<<"*">>)
                  ELSE IF selected = JN THEN JN
                  ELSE Non_JN :
                  selected \in {Evaluate(book, data, cells, f.a)} })
      [] f.f = "text_mmm_yyyy" -> TEXT_MMM_YYYY(Evaluate(book, data, cells, f.a))
      [] f.f = "eomonth" -> EOMONTH(Evaluate(book, data, cells, f.a), f.months)
      [] f.f = "plus_one" -> NextDay(Evaluate(book, data, cells, f.a))

\* create_settings_sheet, run at the time now
create_settings_sheet(now) ==
    TemplateSheet("Settings",
        (<<"B", 4>> :> Lit(Overall))
        @@ (<<"B", 5>> :> Lit(Txt(<<"W", "e", "e", "k", "l", "y">>)))
        @@ (<<"B", 6>> :> Lit(DaysBefore(now, 90)))
        @@ (<<"B", 7>> :> Lit(now))
        @@ (<<"B", 18>> :> Sub(Ref("B", 7), Ref("B", 6))),
        {<<"B", 1>>, <<"C", 1>>, <<"D", 1>>})

SEGMENTS == <<Branded, Competitor, Non_Branded>>

\* 'Campaign Data'!P:P,"{segment}"
OfSegment(segment) == <<Criterion("P", "=", Lit(segment))>>

\* 'Campaign Data'!O:O,"{portfolio_filter}"
OfPortfolio(portfolio_filter) == <<Criterion("O", "=", Lit(portfolio_filter))>>

\* total sales of the period, as the Dashboard and Organic vs Paid compute it
PeriodTotalSales == Sumifs("Business Data", "B", InPeriod)

kpi_start_row == 11

\* the value cells of the four KPI cards of the Dashboard: AD SPEND, AD SALES,
\* ROAS and TACOS at start_col = col * 2 + 1, each merged with the next column
DashboardKpis ==
    (Cell(kpi_start_row + 1, 0 * 2 + 1) :> Sumifs("Campaign Data", "G", InPeriod))
    @@ (Cell(kpi_start_row + 1, 1 * 2 + 1) :> Sumifs("Campaign Data", "H", InPeriod))
    @@ (Cell(kpi_start_row + 1, 2 * 2 + 1) :>
            IfGt0(Ref("A", 12), Div(Ref("B", 12), Ref("A", 12)), Lit(Zero)))
    @@ (Cell(kpi_start_row + 1, 3 * 2 + 1) :>
            IfGt0(PeriodTotalSales, Div(Ref("A", 12), PeriodTotalSales), Lit(Zero)))

DashboardKpisCovered ==
    { Cell(row, col * 2 + 2) : row \in {kpi_start_row, kpi_start_row + 1}, col \in 0..3 }

\* rows 20 to 22 of the Dashboard: spend, sales, ROAS and ACoS of a segment
DashboardSegments ==
    [c \in {"B", "C", "D", "E"} \X (20..22) |->
        CASE c[1] = "B" -> Sumifs("Campaign Data", "G", InPeriod \o OfSegment(SEGMENTS[c[2] - 19]))
          [] c[1] = "C" -> Sumifs("Campaign Data", "H", InPeriod \o OfSegment(SEGMENTS[c[2] - 19]))
          [] c[1] = "D" -> IfGt0(Ref("B", c[2]), Div(Ref("C", c[2]), Ref("B", c[2])), Lit(Zero))
          [] c[1] = "E" -> IfGt0(Ref("C", c[2]), Div(Ref("B", c[2]), Ref("C", c[2])), Lit(Zero))]

create_dashboard_sheet ==
    TemplateSheet("Dashboard",
        (<<"A", 9>> :> Sumifs("Campaign Data", "H",
                          InPeriod \o <<Criterion("O", "=",
                              PortfolioFilter(SheetRef("Settings", "B", 4)))>>))
        @@ DashboardKpis
        @@ (<<"A", 16>> :> PeriodTotalSales)
        @@ (<<"B", 16>> :> Ref("B", 12))
        @@ (<<"C", 16>> :> IfGt0(Ref("A", 16), Div(Ref("B", 16), Ref("A", 16)), Lit(Zero)))
        @@ (<<"D", 16>> :> Sub(Ref("A", 16), Ref("B", 16)))
        @@ (<<"E", 16>> :> IfGt0(Ref("A", 16), Div(Ref("D", 16), Ref("A", 16)), Lit(Zero)))
        @@ DashboardSegments,
        {<<"B", 9>>, <<"C", 9>>, <<"D", 9>>} \cup DashboardKpisCovered)

\* 'Campaign Data'!R:R,TEXT(EOMONTH(Settings!B7,-1)+1,"MMM YYYY")
OfMonth(column, months) == <<Criterion(column, "=", MonthLabelBack(months))>>

\* total sales of the most recent month, as the Executive Summary computes it
MonthTotalSales == Sumifs("Business Data", "B", OfMonth("I", -1))

kpi_row == 9

create_executive_summary_sheet ==
    TemplateSheet("Executive Summary",
        (<<"A", 6>> :> Sumifs("Campaign Data", "H", OfMonth("R", -1)))
        @@ (<<"A", 7>> :> IfGt0(Ref("A", 6),
                              IfGt0(Ref("E", 6),
                                    Div(Sub(Ref("A", 6), Ref("E", 6)), Ref("E", 6)),
                                    Lit(Zero)),
                              Lit(Zero)))
        @@ (<<"E", 6>> :> Sumifs("Campaign Data", "H", OfMonth("R", -2)))
        @@ (Cell(kpi_row + 1, 0 * 2 + 1) :> Sumifs("Campaign Data", "G", OfMonth("R", -1)))
        @@ (Cell(kpi_row + 1, 1 * 2 + 1) :> Sumifs("Campaign Data", "H", OfMonth("R", -1)))
        @@ (Cell(kpi_row + 1, 2 * 2 + 1) :>
                IfGt0(Ref("A", 10), Div(Ref("C", 10), Ref("A", 10)), Lit(Zero)))
        @@ (Cell(kpi_row + 1, 3 * 2 + 1) :>
                IfGt0(MonthTotalSales, Div(Ref("A", 10), MonthTotalSales), Lit(Zero)))
        @@ (<<"A", 15>> :> MonthTotalSales)
        @@ (<<"B", 15>> :> Ref("C", 10))
        @@ (<<"C", 15>> :> Max0(Sub(Ref("A", 15), Ref("B", 15))))
        @@ (<<"D", 15>> :> IfGt0(Ref("A", 15), Div(Ref("B", 15), Ref("A", 15)), Lit(Zero)))
        @@ (<<"E", 15>> :> IfGt0(Ref("A", 15), Div(Ref("C", 15), Ref("A", 15)), Lit(Zero))),
        {<<"B", 6>>, <<"C", 6>>, <<"D", 6>>, <<"B", 7>>, <<"C", 7>>, <<"D", 7>>})

\* SUM(B6:B8)
SumRows(letter, first, last) ==
    SumOf([i \in 1..(last - first + 1) |-> Ref(letter, first + i - 1)])

\* rows 6 to 8 of Segment Performance: spend, spend share, sales, sales
\* share, ROAS and ACoS of a segment
SegmentRows ==
    [c \in {"B", "C", "D", "E", "F", "G"} \X (6..8) |->
        CASE c[1] = "B" -> Sumifs("Campaign Data", "G", InPeriod \o OfSegment(SEGMENTS[c[2] - 5]))
          [] c[1] = "C" -> IfGt0(SumRows("B", 6, 8),
                                 Div(Ref("B", c[2]), SumRows("B", 6, 8)), Lit(Zero))
          [] c[1] = "D" -> Sumifs("Campaign Data", "H", InPeriod \o OfSegment(SEGMENTS[c[2] - 5]))
          [] c[1] = "E" -> IfGt0(SumRows("D", 6, 8),
                                 Div(Ref("D", c[2]), SumRows("D", 6, 8)), Lit(Zero))
          [] c[1] = "F" -> IfGt0(Ref("B", c[2]), Div(Ref("D", c[2]), Ref("B", c[2])), Lit(Zero))
          [] c[1] = "G" -> IfGt0(Ref("D", c[2]), Div(Ref("B", c[2]), Ref("D", c[2])), Lit(Zero))]

\* rows 14 to 16 of Segment Performance: spend, sales and ROAS of a segment
\* in the JN and in the Non-JN portfolios
SegmentByPortfolioRows ==
    [c \in {"B", "C", "D", "E", "F", "G"} \X (14..16) |->
        CASE c[1] = "B" -> Sumifs("Campaign Data", "G",
                                InPeriod \o OfSegment(SEGMENTS[c[2] - 13]) \o OfPortfolio(JN))
          [] c[1] = "C" -> Sumifs("Campaign Data", "H",
                                InPeriod \o OfSegment(SEGMENTS[c[2] - 13]) \o OfPortfolio(JN))
          [] c[1] = "D" -> IfGt0(Ref("B", c[2]), Div(Ref("C", c[2]), Ref("B", c[2])), Lit(Zero))
          [] c[1] = "E" -> Sumifs("Campaign Data", "G",
                                InPeriod \o OfSegment(SEGMENTS[c[2] - 13]) \o OfPortfolio(Non_JN))
          [] c[1] = "F" -> Sumifs("Campaign Data", "H",
                                InPeriod \o OfSegment(SEGMENTS[c[2] - 13]) \o OfPortfolio(Non_JN))
          [] c[1] = "G" -> IfGt0(Ref("E", c[2]), Div(Ref("F", c[2]), Ref("E", c[2])), Lit(Zero))]

create_segment_performance_sheet ==
    TemplateSheet("Segment Performance",
        SegmentRows
        @@ (<<"B", 9>> :> SumRows("B", 6, 8))
        @@ (<<"D", 9>> :> SumRows("D", 6, 8))
        @@ (<<"F", 9>> :> IfGt0(Ref("B", 9), Div(Ref("D", 9), Ref("B", 9)), Lit(Zero)))
        @@ (<<"G", 9>> :> IfGt0(Ref("D", 9), Div(Ref("B", 9), Ref("D", 9)), Lit(Zero)))
        @@ SegmentByPortfolioRows,
        {})

create_organic_vs_paid_sheet ==
    TemplateSheet("Organic vs Paid",
        (<<"A", 6>> :> PeriodTotalSales)
        @@ (<<"B", 6>> :> Sumifs("Campaign Data", "H", InPeriod))
        @@ (<<"C", 6>> :> Max0(Sub(Ref("A", 6), Ref("B", 6))))
        @@ (<<"D", 6>> :> IfGt0(Ref("A", 6), Div(Ref("B", 6), Ref("A", 6)), Lit(Zero)))
        @@ (<<"E", 6>> :> IfGt0(Ref("A", 6), Div(Ref("C", 6), Ref("A", 6)), Lit(Zero)))
        @@ (<<"F", 6>> :> IfGt0(Ref("A", 6),
                              Div(Sumifs("Campaign Data", "G", InPeriod), Ref("A", 6)),
                              Lit(Zero))),
        {})

\* rows 10 to 12 of a portfolio sheet: spend, sales, ROAS and ACoS of a segment
PortfolioSegmentRows(portfolio_filter) ==
    [c \in {"B", "C", "D", "E"} \X (10..12) |->
        CASE c[1] = "B" -> Sumifs("Campaign Data", "G",
                                InPeriod \o OfPortfolio(portfolio_filter)
                                         \o OfSegment(SEGMENTS[c[2] - 9]))
          [] c[1] = "C" -> Sumifs("Campaign Data", "H",
                                InPeriod \o OfPortfolio(portfolio_filter)
                                         \o OfSegment(SEGMENTS[c[2] - 9]))
          [] c[1] = "D" -> IfGt0(Ref("B", c[2]), Div(Ref("C", c[2]), Ref("B", c[2])), Lit(Zero))
          [] c[1] = "E" -> IfGt0(Ref("C", c[2]), Div(Ref("B", c[2]), Ref("C", c[2])), Lit(Zero))]

\* one sheet of create_portfolio_sheets
portfolio_sheet(sheet_name, portfolio_filter) ==
    TemplateSheet(sheet_name,
        (<<"A", 5>> :> Sumifs("Campaign Data", "G", InPeriod \o OfPortfolio(portfolio_filter)))
        @@ (<<"B", 5>> :> Sumifs("Campaign Data", "H", InPeriod \o OfPortfolio(portfolio_filter)))
        @@ (<<"C", 5>> :> IfGt0(Ref("A", 5), Div(Ref("B", 5), Ref("A", 5)), Lit(Zero)))
        @@ (<<"D", 5>> :> IfGt0(Ref("B", 5), Div(Ref("A", 5), Ref("B", 5)), Lit(Zero)))
        @@ (<<"E", 5>> :> Sumifs("Campaign Data", "I", InPeriod \o OfPortfolio(portfolio_filter)))
        @@ (<<"F", 5>> :> Sumifs("Campaign Data", "F", InPeriod \o OfPortfolio(portfolio_filter)))
        @@ (<<"G", 5>> :> IfGt0(Ref("F", 5), Div(Ref("E", 5), Ref("F", 5)), Lit(Zero)))
        @@ PortfolioSegmentRows(portfolio_filter),
        {})

\* the sheets that hold labels and empty tables only
create_instructions_sheet == TemplateSheet("Instructions", NoCells, {})

create_performance_trends_sheet == TemplateSheet("Performance Trends", NoCells, {})

create_monthly_analysis_sheet == TemplateSheet("Monthly Analysis", NoCells, {})

create_weekly_analysis_sheet == TemplateSheet("Weekly Analysis", NoCells, {})

create_pivot_portfolio_sheet == TemplateSheet("Pivot - Portfolio", NoCells, {})

create_pivot_segment_sheet == TemplateSheet("Pivot - Segment", NoCells, {})

\* the data sheets hold headers until the reports are pasted in
create_campaign_data_sheet == TemplateSheet("Campaign Data", NoCells, {})

create_business_data_sheet == TemplateSheet("Business Data", NoCells, {})

\* the values of the formula cells of every sheet after a recalculation
Calculated(book, data) ==
    [k |-> "values",
     of |-> [name \in Range(SheetNames(book)) |->
                The({ [c \in DOMAIN cells |-> Evaluate(book, data, cells, cells[c])] :
                      cells \in {SheetOf(book, name).cells} })]]

\* the day on which the template is generated
Nows == {D(2025, 1, 1)}

\* what the user selects in the Settings sheet: portfolio, start and end date
SettingsChoices ==
    { [portfolio |-> JN, start |-> D(2024, 11, 1), end |-> D(2024, 11, 30)],
      [portfolio |-> Non_JN, start |-> D(2024, 12, 1), end |-> D(2025, 1, 31)] }

\* a sheet with some of its cells overwritten
WithCells(sheet, cells) == TemplateSheet(sheet.name, cells @@ sheet.cells, sheet.covered)

InitTemplate ==
    /\ pc = "template"
    /\ campaign_file = None
    /\ business_file = None
    /\ campaign_df = None
    /\ business_df = None
    /\ monthly_data = None
    /\ weekly_data = None
    /\ wb = None
    /\ output_file = None
    /\ error = "none"
    /\ df = None
    /\ result = None

\* wb = Workbook(); wb.remove(default_sheet)
NewTemplateWorkbook ==
    /\ pc = "template"
    /\ wb' = Workbook(<< >>)
    /\ pc' = "instructions"
    /\ UNCHANGED <<campaign_file, business_file, campaign_df, business_df,
                   monthly_data, weekly_data, output_file, error, df, result>>

\* wb.create_sheet(title, index) for each of the sheets, in turn: the first
\* goes to position index, the others follow it
InsertSheets(sheets, index, next_pc) ==
    /\ wb' = Workbook(SubSeq(wb.sheets, 1, index) \o sheets
                      \o SubSeq(wb.sheets, index + 1, Len(wb.sheets)))
    /\ pc' = next_pc
    /\ UNCHANGED <<campaign_file, business_file, campaign_df, business_df,
                   monthly_data, weekly_data, output_file, error, df, result>>

AddInstructionsSheet ==
    /\ pc = "instructions"
    /\ InsertSheets(<<create_instructions_sheet>>, 0, "settings")

AddSettingsSheet ==
    /\ pc = "settings"
    /\ \E now \in Nows :
        InsertSheets(<<create_settings_sheet(now)>>, Len(wb.sheets), "dashboard")

AddDashboardSheet ==
    /\ pc = "dashboard"
    /\ InsertSheets(<<create_dashboard_sheet>>, 1, "executive_summary")

AddExecutiveSummarySheet ==
    /\ pc = "executive_summary"
    /\ InsertSheets(<<create_executive_summary_sheet>>, Len(wb.sheets),
                    "segment_performance")

AddSegmentPerformanceSheet ==
    /\ pc = "segment_performance"
    /\ InsertSheets(<<create_segment_performance_sheet>>, Len(wb.sheets),
                    "performance_trends")

AddPerformanceTrendsSheet ==
    /\ pc = "performance_trends"
    /\ InsertSheets(<<create_performance_trends_sheet>>, Len(wb.sheets),
                    "monthly_analysis")

AddMonthlyAnalysisSheet ==
    /\ pc = "monthly_analysis"
    /\ InsertSheets(<<create_monthly_analysis_sheet>>, Len(wb.sheets),
                    "weekly_analysis")

AddWeeklyAnalysisSheet ==
    /\ pc = "weekly_analysis"
    /\ InsertSheets(<<create_weekly_analysis_sheet>>, Len(wb.sheets),
                    "organic_vs_paid")

AddOrganicVsPaidSheet ==
    /\ pc = "organic_vs_paid"
    /\ InsertSheets(<<create_organic_vs_paid_sheet>>, Len(wb.sheets), "portfolios")

\* create_portfolio_sheets
AddPortfolioSheets ==
    /\ pc = "portfolios"
    /\ InsertSheets(<<portfolio_sheet("JN Portfolio", JN),
                      portfolio_sheet("Non-JN Portfolio", Non_JN)>>,
                    Len(wb.sheets), "pivots")

\* create_pivot_sheets
AddPivotSheets ==
    /\ pc = "pivots"
    /\ InsertSheets(<<create_pivot_portfolio_sheet, create_pivot_segment_sheet>>,
                    Len(wb.sheets), "campaign_data")

AddCampaignDataSheet ==
    /\ pc = "campaign_data"
    /\ InsertSheets(<<create_campaign_data_sheet>>, Len(wb.sheets), "business_data")

AddBusinessDataSheet ==
    /\ pc = "business_data"
    /\ InsertSheets(<<create_business_data_sheet>>, Len(wb.sheets), "save_template")

\* wb.save(output_path)
SaveTemplate ==
    /\ pc = "save_template"
    /\ output_file' = [k |-> "xlsx", sheets |-> wb.sheets]
    /\ pc' = "template_saved"
    /\ UNCHANGED <<campaign_file, business_file, campaign_df, business_df,
                   monthly_data, weekly_data, wb, error, df, result>>

\* instructions 2 and 3: the two reports are pasted into the data sheets
PasteReports ==
    /\ pc = "template_saved"
    /\ \E c_rows \in SeqsUpTo(CampaignRows, MaxPasted),
          b_rows \in SeqsUpTo(BusinessRows, MaxBizRows) :
        df' = DataRows(c_rows, b_rows)
    /\ pc' = "pasted"
    /\ UNCHANGED <<campaign_file, business_file, campaign_df, business_df,
                   monthly_data, weekly_data, wb, output_file, error, result>>

\* instructions 4 and 5: the date range and the portfolio are selected
AdjustSettings ==
    /\ pc = "pasted"
    /\ \E choice \in SettingsChoices :
        wb' = Workbook([i \in 1..Len(wb.sheets) |->
                  IF wb.sheets[i].name = "Settings"
                  THEN WithCells(wb.sheets[i],
                           (<<"B", 4>> :> Lit(choice.portfolio))
                           @@ (<<"B", 6>> :> Lit(choice.start))
                           @@ (<<"B", 7>> :> Lit(choice.end)))
                  ELSE wb.sheets[i]])
    /\ pc' = "adjusted"
    /\ UNCHANGED <<campaign_file, business_file, campaign_df, business_df,
                   monthly_data, weekly_data, output_file, error, df, result>>

\* Excel recalculates the workbook
Recalculate ==
    /\ pc \in {"pasted", "adjusted"}
    /\ result' = Calculated(wb, df)
    /\ pc' = "calculated"
    /\ UNCHANGED <<campaign_file, business_file, campaign_df, business_df,
                   monthly_data, weekly_data, wb, output_file, error, df>>

NextTemplate ==
    \/ NewTemplateWorkbook
    \/ AddInstructionsSheet
    \/ AddSettingsSheet
    \/ AddDashboardSheet
    \/ AddExecutiveSummarySheet
    \/ AddSegmentPerformanceSheet
    \/ AddPerformanceTrendsSheet
    \/ AddMonthlyAnalysisSheet
    \/ AddWeeklyAnalysisSheet
    \/ AddOrganicVsPaidSheet
    \/ AddPortfolioSheets
    \/ AddPivotSheets
    \/ AddCampaignDataSheet
    \/ AddBusinessDataSheet
    \/ SaveTemplate
    \/ PasteReports
    \/ AdjustSettings
    \/ Recalculate

SpecTemplate == InitTemplate /\ [][NextTemplate]_vars

---------------------------------------------------------------------------
(* Properties *)

RAW == {"Spend", "Sales", "Orders", "Clicks", "Impressions"}

IsNumber(x) == x.k = "num"

\* C1: whatever group of records calc_metrics is given, each of ROAS, ACoS,
\* CVR, CPC and CTR is a finite number, and is exactly 0 when its denominator
\* (summed spend, sales, clicks, clicks, impressions) is 0.
C1_ZeroDenominatorGivesZero ==
    pc = "returned" =>
        /\ \A m \in {"ROAS", "ACoS", "CVR", "CPC", "CTR"} : IsNumber(result[m])
        /\ Sum(df.rows, "Spend") = 0 => result.ROAS = Zero
        /\ Sum(df.rows, "Sales") = 0 => result.ACoS = Zero
        /\ Sum(df.rows, "Clicks") = 0 => result.CVR = Zero /\ result.CPC = Zero
        /\ Sum(df.rows, "Impressions") = 0 => result.CTR = Zero

\* a group of two records with sales and orders but neither spend nor clicks
C1_Witness ==
    /\ pc = "returned"
    /\ Len(df.rows) = 2
    /\ result.Spend = 0 /\ result.Sales > 0
    /\ result.Clicks = 0 /\ result.Orders > 0
    /\ result.ROAS = Zero /\ result.CVR = Zero

\* what C2 says of one month row: TACOS from the row's spend and total sales
ClaimedTacos(spend, total_sales) ==
    IF FGt0(total_sales) THEN FMul(FDiv(Flt(spend), total_sales), Flt(100)) ELSE Zero

\* C2: with a business dataset, every month row's TACOS is
\* spend / total_sales x 100 when total_sales > 0 and exactly 0 when the
\* month's total_sales is 0 or missing; so is the overall TACOS.
C2_TacosZeroWithoutTotalSales ==
    (monthly_data # None /\ business_df # None) =>
        /\ \A i \in 1..Len(monthly_data.rows) :
              monthly_data.rows[i].TACOS
                  = ClaimedTacos(monthly_data.rows[i].Spend,
                                 monthly_data.rows[i].Total_Sales)
        /\ overall_tacos(campaign_df, business_df)
              = ClaimedTacos(Sum(campaign_df.rows, "Spend"),
                             Flt(Sum(business_df.rows, "Total_Sales")))

C4_TimeBucketsConserveTotals ==
    campaign_df # None =>
        \A q \in RAW :
            LET total == Sum(aggregate_by_segment(campaign_df).rows, q)
            IN  /\ Sum(aggregate_by_month(campaign_df, None).rows, q) = total
                /\ Sum(aggregate_by_week(campaign_df).rows, q) = total
                /\ Sum(aggregate_by_portfolio_and_month(campaign_df).rows, q) = total
                /\ Sum(aggregate_by_segment_and_month(campaign_df).rows, q) = total

\* the earliest date among the records of month bucket `label`
BucketStart(c_df, col, label) == MinDate(Group(c_df.rows, col, label))

\* rows are in strictly increasing order of their bucket's earliest date
Chronological(c_df, col, rows) ==
    \A i, j \in 1..Len(rows) :
        i < j => DateLess(BucketStart(c_df, col, rows[i][col]),
                          BucketStart(c_df, col, rows[j][col]))

Labels(rows, col) == [i \in 1..Len(rows) |-> rows[i][col]]

LoadableBusiness ==
    { load_business_data(f).value :
        f \in { g \in BusinessFiles : g.exists /\ load_business_data(g).ok } }

\* C5: the month rows are in the order of each month's earliest date, and in
\* the same order with and without a business dataset.
C5_MonthsChronological ==
    pc = "workbook" =>
        /\ Chronological(campaign_df, "Month_Label", monthly_data.rows)
        /\ Chronological(campaign_df, "Month_Label",
                         aggregate_by_month(campaign_df, None).rows)
        /\ \A b \in LoadableBusiness :
              Labels(aggregate_by_month(campaign_df, b).rows, "Month_Label")
                  = Labels(aggregate_by_month(campaign_df, None).rows, "Month_Label")

\* records dated Dec 2024, Jan 2025, Nov 2024 in this order, joined with a
\* business dataset, come out as Nov 2024, Dec 2024, Jan 2025
C5_Witness ==
    /\ monthly_data # None
    /\ business_df # None
    /\ Labels(campaign_df.rows, "Month_Label")
         = <<strftime_bY(D(2024, 12, 1)), strftime_bY(D(2025, 1, 1)),
             strftime_bY(D(2024, 11, 1))>>
    /\ Labels(monthly_data.rows, "Month_Label")
         = <<strftime_bY(D(2024, 11, 1)), strftime_bY(D(2024, 12, 1)),
             strftime_bY(D(2025, 1, 1))>>

\* rows of a month-by-category table never step back in time: a row's month
\* does not start before the month of any row above it
MonthsNeverStepBack(c_df, rows) ==
    \A i, j \in 1..Len(rows) :
        i < j => ~DateLess(BucketStart(c_df, "Month_Label", rows[j].Month_Label),
                           BucketStart(c_df, "Month_Label", rows[i].Month_Label))

\* C6: the portfolio-by-month rows and the segment-by-month rows are ordered
\* by the month's earliest date, not by the month label.
C6_PairwiseMonthsChronological ==
    campaign_df # None =>
        /\ MonthsNeverStepBack(campaign_df,
                               aggregate_by_portfolio_and_month(campaign_df).rows)
        /\ MonthsNeverStepBack(campaign_df,
                               aggregate_by_segment_and_month(campaign_df).rows)

\* C7: the week rows are in the order of each week bucket's earliest date.
C7_WeeksChronological ==
    weekly_data # None =>
        Chronological(campaign_df, "Week", weekly_data.rows)

\* records of 1 Jan 2025, 30 Dec 2024 and 15 Nov 2024, in this order: the
\* week rows are 2024-W45, 2024-W52, 2025-W00
C7_Witness ==
    /\ weekly_data # None
    /\ Labels(campaign_df.rows, "Week")
         = <<strftime_YWU(D(2025, 1, 1)), strftime_YWU(D(2024, 12, 30)),
             strftime_YWU(D(2024, 11, 15))>>
    /\ Labels(weekly_data.rows, "Week")
         = <<strftime_YWU(D(2024, 11, 15)), strftime_YWU(D(2024, 12, 30)),
             strftime_YWU(D(2025, 1, 1))>>
    /\ strftime_YWU(D(2024, 12, 30)).s = <<"2", "0", "2", "4", "-", "W", "5", "2">>
    /\ strftime_YWU(D(2025, 1, 1)).s = <<"2", "0", "2", "5", "-", "W", "0", "0">>

\* a file that is there with all its columns
Readable(file, columns) == file # None /\ file.exists /\ columns \subseteq file.columns

\* the rows whose date can be parsed (an empty Date cell parses, to NaT)
Parseable(rows) == SelectSeq(rows, LAMBDA r : ~Unparseable(r.Date))

\* C8: a record whose date cannot be parsed does not abort the run: a
\* campaign or business file that is there with all its columns is loaded,
\* and the frame holds its other records.
C8_UnparseableDateDoesNotAbort ==
    /\ Readable(campaign_file, CAMPAIGN_COLUMNS) =>
          /\ campaign_df # None
          /\ Len(campaign_df.rows) = Len(Parseable(campaign_file.rows))
    /\ Readable(business_file, BUSINESS_COLUMNS) =>
          /\ business_df # None
          /\ Len(business_df.rows) = Len(Parseable(business_file.rows))

REPORT_SHEETS ==
    {"Executive Summary", "Monthly Performance", "Weekly Performance",
     "Segment Analysis", "Portfolio Analysis", "Campaign Data"}

\* C9: the output file is written only by a run that has loaded, aggregated
\* and created every sheet, and then it holds the whole workbook; a run that
\* aborts, as one whose campaign file is missing or lacks a column does,
\* leaves no output file.
C9_SaveOnlyAfterEverything ==
    /\ output_file # None =>
          /\ pc = "done"
          /\ error = "none"
          /\ campaign_df # None /\ monthly_data # None /\ weekly_data # None
          /\ output_file.sheets = wb.sheets
          /\ REPORT_SHEETS \subseteq Range(SheetNames(wb))
    /\ pc = "aborted" => output_file = None
    /\ (campaign_file # None /\ ~Readable(campaign_file, CAMPAIGN_COLUMNS))
          => pc = "aborted" /\ output_file = None /\ wb = None

\* a complete run has saved the report
C9_WitnessSaved ==
    /\ pc = "done"
    /\ output_file # None
    /\ Len(output_file.sheets) = 8

\* a sheet without the fields that come from the business data
WithoutBusiness(sheet) ==
    IF sheet.name = "Executive Summary"
    THEN [f \in DOMAIN sheet \ {"total_sales", "tacos"} |-> sheet[f]]
    ELSE IF sheet.name = "Monthly Performance"
    THEN [sheet EXCEPT
            !.headers = SubSeq(sheet.headers, 1, 8),
            !.data = [r \in DOMAIN sheet.data |->
                        [f \in DOMAIN sheet.data[r] \ {"Total_Sales", "Organic", "TACOS"}
                            |-> sheet.data[r][f]]]]
    ELSE sheet

\* the sheet main() creates under `name` from these two frames
SheetFor(name, c_df, b_df) ==
    CASE name = "Executive Summary" ->
            create_summary_sheet(c_df, b_df, aggregate_by_month(c_df, b_df)).value
      [] name = "Monthly Performance" ->
            create_monthly_sheet(aggregate_by_month(c_df, b_df))
      [] name = "Weekly Performance" -> create_weekly_sheet(aggregate_by_week(c_df))
      [] name = "Segment Analysis" -> create_segment_sheet(c_df)
      [] name = "Portfolio Analysis" -> create_portfolio_sheet(c_df)
      [] name = "Campaign Data" ->
            create_raw_data_sheet(c_df, "Campaign Data", campaign_cols)

\* C10: without the business file the run completes as it does with one; the
\* overall TACOS is 0, the monthly table has no business columns, the sheets
\* 'Organic vs Paid' and 'Business Data' are there exactly when the business
\* file is, and every other sheet is, apart from the business fields, what it
\* would be with business data.
C10_ReportWithoutBusinessFile ==
    /\ pc = "done" =>
          /\ HasSheet(wb, "Organic vs Paid") <=> business_file.exists
          /\ HasSheet(wb, "Business Data") <=> business_file.exists
          /\ REPORT_SHEETS \subseteq Range(SheetNames(wb))
    /\ (business_file # None /\ ~business_file.exists /\ pc = "aborted")
          => ValidDates(campaign_df.rows) = {}
    /\ (pc = "done" /\ ~business_file.exists) =>
          /\ SheetOf(wb, "Executive Summary").tacos = Zero
          /\ monthly_data.columns \cap BUSINESS_JOINED = {}
          /\ \A name \in REPORT_SHEETS : \A b \in LoadableBusiness :
                WithoutBusiness(SheetOf(wb, name))
                    = WithoutBusiness(SheetFor(name, campaign_df, b))

\* max(0, total_sales - ad_sales) on whole amounts
ClaimedOrganic(total_sales, ad_sales) ==
    IF total_sales - ad_sales > 0 THEN total_sales - ad_sales ELSE 0

\* C11: organic sales is never negative: in every month row that has a total
\* of business sales, and in the overall summary of the 'Organic vs Paid'
\* sheet, it is max(0, total_sales - ad_sales).
C11_OrganicSalesClamped ==
    /\ (monthly_data # None /\ business_df # None) =>
          \A i \in 1..Len(monthly_data.rows) :
              LET m == monthly_data.rows[i]
              IN  /\ m.Organic_Sales # NaN => Sign(m.Organic_Sales) >= 0
                  /\ m.Total_Sales # NaN =>
                        m.Organic_Sales
                            = Flt(ClaimedOrganic(m.Total_Sales.n, m.Sales))
    /\ (wb # None /\ HasSheet(wb, "Organic vs Paid")) =>
          LET sheet == SheetOf(wb, "Organic vs Paid")
          IN  sheet.available =>
                /\ sheet.organic_sales >= 0
                /\ sheet.organic_sales
                      = ClaimedOrganic(Sum(business_df.rows, "Total_Sales"),
                                       Sum(campaign_df.rows, "Sales"))

\* a month with business sales of 3 and ad sales of 5 or more has organic
\* sales 0, in the month row and in the overall summary of the sheet
C11_Witness ==
    /\ wb # None /\ HasSheet(wb, "Organic vs Paid")
    /\ SheetOf(wb, "Organic vs Paid").available
    /\ SheetOf(wb, "Organic vs Paid").total_sales = 3
    /\ SheetOf(wb, "Organic vs Paid").ad_sales >= 5
    /\ SheetOf(wb, "Organic vs Paid").organic_sales = 0
    /\ \E i \in 1..Len(monthly_data.rows) :
          /\ monthly_data.rows[i].Total_Sales = Flt(3)
          /\ monthly_data.rows[i].Sales >= 5
          /\ monthly_data.rows[i].Organic_Sales = Zero

\* the business frame has a record of month `label`
HasBusinessMonth(b_df, label) ==
    \E j \in 1..Len(b_df.rows) : b_df.rows[j].Month_Label = label

\* 0 or absent
ZeroOrAbsent(x) == x = NaN \/ x = Zero

\* C12: with a business dataset, aggregation does not fail on a campaign month
\* that no business record shares: every campaign month has its one row, with
\* the sums and metrics of the month's campaign records, and where no business
\* record has the month's label, total sales, organic sales and TACOS are each
\* 0 or absent.
C12_UnmatchedMonthKept ==
    /\ (pc = "aborted" /\ campaign_df # None /\ business_df # None /\ wb = None)
          => GroupKeys(campaign_df.rows, "Month_Label") = {}
    /\ (monthly_data # None /\ business_df # None) =>
          /\ Range(Labels(monthly_data.rows, "Month_Label"))
                = GroupKeys(campaign_df.rows, "Month_Label")
          /\ Len(monthly_data.rows)
                = Cardinality(GroupKeys(campaign_df.rows, "Month_Label"))
          /\ \A i \in 1..Len(monthly_data.rows) :
                LET m == monthly_data.rows[i]
                    sums == calc_metrics(Group(campaign_df.rows, "Month_Label",
                                               m.Month_Label))
                IN  /\ \A c \in METRIC_COLUMNS : m[c] = sums[c]
                    /\ ~HasBusinessMonth(business_df, m.Month_Label) =>
                          /\ ZeroOrAbsent(m.Total_Sales)
                          /\ ZeroOrAbsent(m.Organic_Sales)
                          /\ ZeroOrAbsent(m.TACOS)

\* campaign records of two months and a business record of one of them: the
\* other month's row is there with its spend, without business figures
C12_Witness ==
    /\ monthly_data # None /\ business_df # None
    /\ Len(monthly_data.rows) >= 2
    /\ \E i, j \in 1..Len(monthly_data.rows) :
          /\ HasBusinessMonth(business_df, monthly_data.rows[i].Month_Label)
          /\ monthly_data.rows[i].Total_Sales # NaN
          /\ ~HasBusinessMonth(business_df, monthly_data.rows[j].Month_Label)
          /\ monthly_data.rows[j].Spend > 0
          /\ monthly_data.rows[j].Total_Sales = NaN
          /\ monthly_data.rows[j].TACOS = Zero

\* the value is a text that has `sub` (given in lower case) in it, in any
\* letter case
ContainsAnyCase(sub, value) ==
    /\ value.k = "text"
    /\ \E i \in 0..(Len(value.s) - Len(sub)) :
          \A j \in 1..Len(sub) : LowerChar(value.s[i + j]) = sub[j]

HasBranded(value) == ContainsAnyCase(<<"b", "r", "a", "n", "d", "e", "d">>, value)

\* 'pat' between two spaces, two hyphens or two underscores
HasDelimitedPat(value) ==
    \/ ContainsAnyCase(<<" ", "p", "a", "t", " ">>, value)
    \/ ContainsAnyCase(<<"-", "p", "a", "t", "-">>, value)
    \/ ContainsAnyCase(<<"_", "p", "a", "t", "_">>, value)

\* C13: a campaign name that contains 'branded' in any letter case is
\* classified Branded, also when it contains a delimited 'pat' marker.
C13_BrandedCheckFirst ==
    (pc = "classify_segment" /\ HasBranded(df)) => result = Branded

\* 'Brand X - branded - pat campaign' is Branded
C13_Witness ==
    /\ pc = "classify_segment"
    /\ df = Txt(<<"B", "r", "a", "n", "d", " ", "X", " ", "-", " ",
                  "b", "r", "a", "n", "d", "e", "d", " ", "-", " ",
                  "p", "a", "t", " ", "c", "a", "m", "p", "a", "i", "g", "n">>)
    /\ HasBranded(df) /\ HasDelimitedPat(df)
    /\ result = Branded

\* C14: a campaign name without 'branded' is Competitor exactly when it has
\* 'pat', in any letter case, between two spaces, between two hyphens or
\* between two underscores; every other value, a missing or empty name
\* included, is Non-Branded.
C14_CompetitorIffDelimitedPat ==
    (pc = "classify_segment" /\ ~HasBranded(df)) =>
        /\ HasDelimitedPat(df) => result = Competitor
        /\ ~HasDelimitedPat(df) => result = Non_Branded

\* C15: classify_portfolio gives JN exactly for the names that contain 'jn'
\* in any letter case, and Non-JN for every other value, a missing or empty
\* name included.
C15_PortfolioJNIffContainsJn ==
    pc = "classify_portfolio" =>
        /\ ContainsAnyCase(<<"j", "n">>, df) => result = JN
        /\ ~ContainsAnyCase(<<"j", "n">>, df) => result = Non_JN

\* a name with 'jN' in it, which is neither 'jn' nor 'JN', is JN
C15_Witness ==
    /\ pc = "classify_portfolio"
    /\ df.k = "text"
    /\ Contains(<<"j", "N">>, df)
    /\ ~Contains(<<"j", "n">>, df) /\ ~Contains(<<"J", "N">>, df)
    /\ result = JN

\* C16: classification is total: whatever the value is (a text, a number, a
\* missing value), classify_portfolio returns JN or Non-JN and
\* classify_segment returns Branded, Competitor or Non-Branded, and every
\* loaded campaign record carries two such labels.
C16_ClassificationTotal ==
    /\ pc = "classify_portfolio" => result \in {JN, Non_JN}
    /\ pc = "classify_segment" => result \in {Branded, Competitor, Non_Branded}
    /\ campaign_df # None =>
          \A i \in 1..Len(campaign_df.rows) :
              /\ campaign_df.rows[i].Portfolio_Type \in {JN, Non_JN}
              /\ campaign_df.rows[i].Segment \in {Branded, Competitor, Non_Branded}

\* a missing portfolio name is given the default label
C16_Witness ==
    /\ pc = "classify_portfolio"
    /\ df = NaN
    /\ result = Non_JN

\* the sum of quantity q over the records of the group
RECURSIVE Total(_, _)
Total(rows, q) == IF rows = << >> THEN 0 ELSE Head(rows)[q] + Total(Tail(rows), q)

\* a / b, and a / b x 100, of two whole amounts with b > 0
Ratio(a, b) == FDiv(Flt(a), Flt(b))

Percent(a, b) == FMul(FDiv(Flt(a), Flt(b)), Flt(100))

\* C17: calc_metrics returns the five sums of the group, and each metric whose
\* denominator is positive is the ratio of the sums: ROAS = sales / spend,
\* ACoS = spend / sales x 100, CVR = orders / clicks x 100,
\* CPC = spend / clicks, CTR = clicks / impressions x 100.
C17_MetricsAreRatiosOfSums ==
    pc = "returned" =>
        LET spend == Total(df.rows, "Spend")
            sales == Total(df.rows, "Sales")
            orders == Total(df.rows, "Orders")
            clicks == Total(df.rows, "Clicks")
            impressions == Total(df.rows, "Impressions")
        IN  /\ result.Spend = spend /\ result.Sales = sales
            /\ result.Orders = orders /\ result.Clicks = clicks
            /\ result.Impressions = impressions
            /\ spend > 0 => result.ROAS = Ratio(sales, spend)
            /\ sales > 0 => result.ACoS = Percent(spend, sales)
            /\ clicks > 0 => result.CVR = Percent(orders, clicks)
            /\ clicks > 0 => result.CPC = Ratio(spend, clicks)
            /\ impressions > 0 => result.CTR = Percent(clicks, impressions)

\* two records, (spend 2, sales 2) and (spend 0, sales 2): ROAS is 4 / 2 = 2,
\* where the records' own ratios are 1 and 0
C17_Witness ==
    /\ pc = "returned"
    /\ Len(df.rows) = 2
    /\ df.rows[1].Spend = 2 /\ df.rows[1].Sales = 2
    /\ df.rows[2].Spend = 0 /\ df.rows[2].Sales = 2
    /\ result.Clicks > 0 /\ result.Impressions > 0
    /\ result.ROAS = Flt(2)
    /\ result.ACoS = Flt(50)

\* (current - previous) / previous if previous > 0, else 0
Delta(current, previous) ==
    IF FGt0(previous) THEN FDiv(FSub(current, previous), previous) ELSE Zero

\* the k-th smallest of a set of sheet row numbers
KthRow(S, k) == CHOOSE r \in S : Cardinality({ q \in S : q < r }) = k - 1

\* what the campaign records of the k-th month, in order of time, add up to
MonthBucket(c_df, k) ==
    calc_metrics(Group(c_df.rows, "Month_Label", month_order(c_df.rows)[k]))

\* C18: the month-over-month section of the monthly sheet has one row for each
\* month bucket after the first, n - 1 rows for n buckets, in order of time;
\* its spend, sales and ROAS changes are (current - previous) / previous with
\* the values of the bucket just before in time when that value is greater
\* than 0, and 0 otherwise.
C18_MonthOverMonthDeltas ==
    (wb # None /\ HasSheet(wb, "Monthly Performance")) =>
        LET mom == SheetOf(wb, "Monthly Performance").mom
            n == Cardinality(GroupKeys(campaign_df.rows, "Month_Label"))
        IN  /\ Cardinality(DOMAIN mom) = n - 1
            /\ \A k \in 1..(n - 1) :
                  LET cells == mom[KthRow(DOMAIN mom, k)]
                      curr == MonthBucket(campaign_df, k + 1)
                      prev == MonthBucket(campaign_df, k)
                  IN  /\ cells.Month_Label = month_order(campaign_df.rows)[k + 1]
                      /\ cells.Spend = Delta(Flt(curr.Spend), Flt(prev.Spend))
                      /\ cells.Sales = Delta(Flt(curr.Sales), Flt(prev.Sales))
                      /\ cells.ROAS = Delta(curr.ROAS, prev.ROAS)

\* records of Jan 2025, Nov 2024 and Dec 2024 (sales 5, 6, 0): two rows, Dec
\* with sales change (0 - 6) / 6 = -1 and Jan, after a month without sales,
\* with sales change 0 and spend change (1 - 3) / 3
C18_Witness ==
    /\ wb # None /\ HasSheet(wb, "Monthly Performance")
    /\ Labels(campaign_df.rows, "Month_Label")
         = <<strftime_bY(D(2025, 1, 1)), strftime_bY(D(2024, 11, 1)),
             strftime_bY(D(2024, 12, 1))>>
    /\ LET mom == SheetOf(wb, "Monthly Performance").mom
       IN  /\ Cardinality(DOMAIN mom) = 2
           /\ mom[KthRow(DOMAIN mom, 1)].Month_Label = strftime_bY(D(2024, 12, 1))
           /\ mom[KthRow(DOMAIN mom, 1)].Sales = Flt(-1)
           /\ mom[KthRow(DOMAIN mom, 2)].Month_Label = strftime_bY(D(2025, 1, 1))
           /\ mom[KthRow(DOMAIN mom, 2)].Sales = Zero
           /\ mom[KthRow(DOMAIN mom, 2)].ROAS = Zero
           /\ mom[KthRow(DOMAIN mom, 2)].Spend = Num(-2, 3)

\* the text without '$', ',', '%', quote characters and blanks around it
Stripped(value) == strip(RemoveChars(value.s, {"$", ",", "%", "\"", "'"}))

\* a decimal number written out: an optional sign, digits, at most one point
IsNumberText(s) ==
    /\ s # << >>
    /\ IsDecimal(IF Head(s) \in {"+", "-"} THEN Tail(s) ELSE s)

\* C19: parse_currency and parse_percent return a number for every value: 0.0
\* for a missing value, for an empty string and for a text that is not a
\* number once '$', ',', '%' and quote characters are stripped, the number
\* itself for a number, and the value of a well-formed text ('$1,234.50' is
\* 1234.5).
C19_ParseNeverFailsDefaultsToZero ==
    pc \in {"parse_currency", "parse_percent"} =>
        /\ result.k = "num"
        /\ df = NaN => result = Zero
        /\ df.k = "num" => result = df
        /\ (df.k = "text" /\ ~IsNumberText(Stripped(df))) => result = Zero
        /\ (pc = "parse_currency"
              /\ df = Txt(<<"$", "1", ",", "2", "3", "4", ".", "5", "0">>))
                 => result = Num(12345, 10)

BUSINESS_SUMS == {"Total_Sales", "Units", "Sessions"}

\* the rows of a time-bucketed table carry, under each of the business sums,
\* the sum over the business records with the row's bucket label (absent
\* when there is none)
CarriesBusinessSums(table, b_df, col) ==
    /\ BUSINESS_SUMS \subseteq table.columns
    /\ \A i \in 1..Len(table.rows) : \A s \in BUSINESS_SUMS :
          LET matching == Group(b_df.rows, col, table.rows[i][col])
          IN  /\ s \in DOMAIN table.rows[i]
              /\ table.rows[i][s]
                    = IF matching = << >> THEN NaN ELSE Flt(Sum(matching, s))

\* C21: with a business dataset, the month table and the week table that
\* main() aggregates both carry the business sums (total sales, units,
\* sessions) joined by the bucket label.
C21_TimeBucketsCarryBusinessSums ==
    (monthly_data # None /\ weekly_data # None /\ business_df # None) =>
        /\ CarriesBusinessSums(monthly_data, business_df, "Month_Label")
        /\ CarriesBusinessSums(weekly_data, business_df, "Week")

\* C22: the Monthly Performance sheet has the month rows in sheet rows 4, 5,
\* ... in order of time, one sheet row per month and none left out, with
\* and without business data, and the month-over-month rows below follow the
\* same order.
C22_MonthlySheetRowsChronological ==
    (wb # None /\ HasSheet(wb, "Monthly Performance")) =>
        LET sheet == SheetOf(wb, "Monthly Performance")
            order == month_order(campaign_df.rows)
            n == Len(order)
        IN  /\ DOMAIN sheet.data = 4..(n + 3)
            /\ \A k \in 1..n : sheet.data[k + 3].Month_Label = order[k]
            /\ \A k \in 1..(n - 1) :
                  sheet.mom[KthRow(DOMAIN sheet.mom, k)].Month_Label
                      = sheet.data[k + 4].Month_Label

\* C23: the aggregation functions leave their input as it is: whatever
\* main() has aggregated so far, the campaign frame and the business frame
\* hold the records, columns and values they were loaded with.
C23_AggregationLeavesInputUnchanged ==
    /\ campaign_df # None => campaign_df = load_campaign_data(campaign_file).value
    /\ business_df # None => business_df = load_business_data(business_file).value

\* a finished run, after every aggregation over two campaign records or more
\* and a business record
C23_Witness ==
    /\ pc = "done"
    /\ Len(campaign_df.rows) >= 2
    /\ business_df # None /\ Len(business_df.rows) >= 1
    /\ Len(monthly_data.rows) >= 2
    /\ HasSheet(wb, "Segment Analysis") /\ HasSheet(wb, "Portfolio Analysis")

\* the quotients written in a formula
RECURSIVE Divisions(_)
Divisions(f) ==
    CASE f.f = "div" -> {f} \cup Divisions(f.a) \cup Divisions(f.b)
      [] f.f = "sub" -> Divisions(f.a) \cup Divisions(f.b)
      [] f.f = "if_gt0" -> Divisions(f.a) \cup Divisions(f.t) \cup Divisions(f.e)
      [] f.f = "max0" -> Divisions(f.a)
      [] OTHER -> {}

\* the formula cells of the open workbook, as <<sheet name, cell>>
FormulaCells ==
    UNION { { <<wb.sheets[i].name, c>> : c \in DOMAIN wb.sheets[i].cells } :
            i \in 1..Len(wb.sheets) }

FormulaAt(at) == SheetOf(wb, at[1]).cells[at[2]]

\* the value of a part of the formula of a cell
PartValue(at, part) == Evaluate(wb, df, SheetOf(wb, at[1]).cells, part)

\* C24: once the workbook is recalculated, a cell whose formula holds a
\* quotient with a denominator that is not greater than 0 shows exactly 0,
\* and no cell of the workbook shows #DIV/0!
C24_DivisionsGuarded ==
    pc = "calculated" =>
        \A at \in FormulaCells :
            /\ result.of[at[1]][at[2]] # DivZero
            /\ \A d \in Divisions(FormulaAt(at)) :
                ~FGt0(PartValue(at, d.b)) => result.of[at[1]][at[2]] = Zero

\* a recalculated cell holding a quotient whose denominator is 0 and whose
\* numerator is not, and showing 0
C24_Witness ==
    /\ pc = "calculated"
    /\ \E at \in FormulaCells :
        \E d \in Divisions(FormulaAt(at)) :
            /\ PartValue(at, d.b) = Zero
            /\ PartValue(at, d.a) # Zero
            /\ result.of[at[1]][at[2]] = Zero

\* the organic-sales cells of the template, each with its total-sales cell
\* and the ad sales of what the sheet covers
OrganicCells ==
    { [at |-> <<"Dashboard", <<"D", 16>>>>, total |-> <<"A", 16>>,
       ad_sales |-> Sumifs("Campaign Data", "H", InPeriod)],
      [at |-> <<"Executive Summary", <<"C", 15>>>>, total |-> <<"A", 15>>,
       ad_sales |-> Sumifs("Campaign Data", "H", OfMonth("R", -1))],
      [at |-> <<"Organic vs Paid", <<"C", 6>>>>, total |-> <<"A", 6>>,
       ad_sales |-> Sumifs("Campaign Data", "H", InPeriod)] }

\* C25: once the workbook is recalculated, every organic-sales cell shows
\* max(0, total sales - ad sales) and so never a negative value
C25_OrganicCellsClamped ==
    pc = "calculated" =>
        \A o \in OrganicCells :
            /\ result.of[o.at[1]][o.at[2]]
                  = MAX0(Difference(result.of[o.at[1]][o.total], PartValue(o.at, o.ad_sales)))
            /\ Sign(result.of[o.at[1]][o.at[2]]) >= 0

\* the value cell of the KPI card number col (0 AD SPEND, 1 AD SALES, 2 ROAS,
\* 3 TACOS) of the Dashboard
KpiValueCell(col) == Cell(kpi_start_row + 1, col * 2 + 1)

RefTo(cell) == Ref(cell[1], cell[2])

\* C26: on the Dashboard the ROAS formula divides the AD SALES value cell by
\* the AD SPEND value cell and the 'Ad Sales' cell of the sales breakdown
\* refers to the AD SALES value cell; once recalculated, ROAS is ad sales
\* over ad spend of the period and the breakdown shows the ad sales
C26_DashboardRefersToKpiCells ==
    (wb # None /\ HasSheet(wb, "Dashboard")) =>
        LET cells == SheetOf(wb, "Dashboard").cells
        IN  /\ Divisions(cells[KpiValueCell(2)])
                  = {Div(RefTo(KpiValueCell(1)), RefTo(KpiValueCell(0)))}
            /\ cells[<<"B", 16>>] = RefTo(KpiValueCell(1))
            /\ pc = "calculated" =>
                  LET values == result.of["Dashboard"]
                  IN  /\ FGt0(values[KpiValueCell(0)]) =>
                            values[KpiValueCell(2)]
                                = FDiv(values[KpiValueCell(1)], values[KpiValueCell(0)])
                      /\ values[<<"B", 16>>] = values[KpiValueCell(1)]

\* a sequence in which nothing occurs twice
NoDuplicates(seq) == \A i, j \in 1..Len(seq) : seq[i] = seq[j] => i = j

\* the month labels of the business records that no campaign record has
BusinessOnlyMonths ==
    GroupKeys(business_df.rows, "Month_Label") \ GroupKeys(campaign_df.rows, "Month_Label")

MonthlyTotalSales == PlusSeq(Column(monthly_data.rows, "Total_Sales"))

\* C28: with a business dataset, the overall total sales behind the overall
\* TACOS and the overall organic summary equal the sum of Total_Sales over
\* the rows of the monthly table, whatever months the two datasets cover.
C28_OverallTotalIsSumOfMonths ==
    (monthly_data # None /\ business_df # None) =>
        /\ Flt(overall_total_sales(business_df)) = MonthlyTotalSales
        /\ overall_tacos(campaign_df, business_df)
              = (IF FGt0(MonthlyTotalSales)
                 THEN FMul(FDiv(Flt(Sum(campaign_df.rows, "Spend")), MonthlyTotalSales),
                           Flt(100))
                 ELSE Zero)
        /\ Flt(overall_organic_sales(campaign_df, business_df))
              = clip_lower0(FSub(MonthlyTotalSales, Flt(Sum(campaign_df.rows, "Sales"))))

\* C29: the Segment formula of the template's Campaign Data sheet gives a
\* campaign name the segment classify_segment gives it.
C29_TemplateSegmentAgrees ==
    pc = "classify_segment" => SegmentFormula(Pasted(df)) = result

\* a name that literally says 'non-branded' or 'unbranded'
SaysNotBranded(value) ==
    \/ ContainsAnyCase(<<"n", "o", "n", "-", "b", "r", "a", "n", "d", "e", "d">>, value)
    \/ ContainsAnyCase(<<"u", "n", "b", "r", "a", "n", "d", "e", "d">>, value)

\* C30: classify_segment gives Branded exactly for the names that contain
\* 'branded' once lower-cased; Non-Branded and Competitor are given only to
\* names without it, and a name that says 'non-branded' or 'unbranded' is
\* Branded.
C30_BrandedIffContainsBranded ==
    pc = "classify_segment" =>
        /\ result = Branded <=> HasBranded(df)
        /\ result \in {Non_Branded, Competitor} => ~HasBranded(df)
        /\ SaysNotBranded(df) => result = Branded

\* 'Non-Branded Search' classified Branded
C30_Witness ==
    /\ pc = "classify_segment"
    /\ df = Txt(<<"N", "o", "n", "-", "B", "r", "a", "n", "d", "e", "d", " ",
                  "S", "e", "a", "r", "c", "h">>)
    /\ SaysNotBranded(df)
    /\ result = Branded

=============================================================================
